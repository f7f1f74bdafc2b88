------------------------------ MODULE McpServers ------------------------------
(***************************************************************************)
(* The MCP servers of one turn (agent/tools_mcp.go): one goroutine per     *)
(* server connects it over its candidate transports and lists its tools,   *)
(* the turn calls the tools that were mounted, and the teardown closes     *)
(* every session that was handed over.                                     *)
(*                                                                         *)
(* A link is one client.Connect: its goroutine, and the session it may     *)
(* come back with. It lives on a context of its own below the turn's. What *)
(* the MCP library does when that context ends (a Connect returns, a       *)
(* session loses its transport) is inferred from the code that relies on   *)
(* it.                                                                     *)
(***************************************************************************)
EXTENDS TurnContext, Sequences, FiniteSets, Functions

CONSTANTS
  Servers,     \* the mcp_servers of the session
  Transports,  \* per server: its candidate transports, in order of preference
  None         \* no server

ASSUME McpAssumption ==
  /\ None \notin Servers
  /\ \A s \in Servers : Transports[s] \in {<<"streamable">>, <<"sse">>, <<"streamable", "sse">>}

VARIABLES
  conn,     \* where the goroutine of a server is
  cand,     \* its candidate: a position in Transports
  link,     \* the links, by server and candidate
  linkctx,  \* the links whose own context is cancelled
  mounted,  \* the servers in the order they were mounted (conns, tools)
  closing,  \* servers whose session closeAll is still closing
  using     \* the server a tool call is waiting for

mcpVars == <<conn, cand, link, linkctx, mounted, closing, using>>

Kinds == {"streamable", "sse"}
Links == Servers \X Kinds

Candidate(s) == <<s, Transports[s][cand[s]]>>
LinkEnded(l) == l \in linkctx \/ Ended
Settled(s)   == conn[s] \in {"mounted", "failed"}

McpTypes ==
  /\ conn \in [Servers -> {"rest", "dial", "list", "release", "mounted", "failed"}]
  /\ DOMAIN cand = Servers /\ \A s \in Servers : cand[s] \in DOMAIN Transports[s]
  /\ link \in [Links -> {"none", "dialing", "open", "closing", "closed", "dead"}]
  /\ linkctx \subseteq Links /\ closing \subseteq Servers
  /\ mounted \in Seq(Servers) /\ using \in Servers \cup {None}

McpInit ==
  /\ conn = [s \in Servers |-> "rest"] /\ cand = [s \in Servers |-> 1]
  /\ link = [l \in Links |-> "none"] /\ linkctx = {}
  /\ mounted = <<>> /\ closing = {} /\ using = None
-----------------------------------------------------------------------------
\* ConnectMCPServers.

\* The goroutines of all servers start, each with its first candidate.
ConnectAll ==
  /\ conn' = [s \in Servers |-> "dial"]
  /\ link' = [l \in Links |-> IF l = Candidate(l[1]) THEN "dialing" ELSE link[l]]
  /\ UNCHANGED <<cand, linkctx, mounted, closing, using>>

Dial(s, n) ==
  /\ conn' = [conn EXCEPT ![s] = "dial"] /\ cand' = [cand EXCEPT ![s] = n]
  /\ link' = [link EXCEPT ![<<s, Transports[s][n]>>] = "dialing"]

\* The context of the link is cancelled and the next candidate is tried.
NextCandidate(s) ==
  /\ linkctx' = linkctx \cup {Candidate(s)}
  /\ IF cand[s] < Len(Transports[s]) THEN Dial(s, cand[s] + 1)
     ELSE conn' = [conn EXCEPT ![s] = "failed"] /\ UNCHANGED <<cand, link>>
  /\ UNCHANGED <<mounted, closing, using>>

\* Connect returned: with a session whose tools are listed next, or an error.
Connected(s) ==
  /\ conn[s] = "dial" /\ link[Candidate(s)] \in {"open", "dead"}
  /\ \/ /\ link[Candidate(s)] = "open"
        /\ conn' = [conn EXCEPT ![s] = "list"]
        /\ UNCHANGED <<cand, link, linkctx, mounted, closing, using>>
     \/ link[Candidate(s)] = "dead" /\ NextCandidate(s)

\* Fault: the link that timed out keeps its context.
AbandonLink(s) ==
  /\ conn[s] = "dial"
  /\ IF cand[s] < Len(Transports[s]) THEN Dial(s, cand[s] + 1)
     ELSE conn' = [conn EXCEPT ![s] = "failed"] /\ UNCHANGED <<cand, link>>
  /\ UNCHANGED <<linkctx, mounted, closing, using>>

\* Connect is not waited for longer than 10 s; it may still succeed.
ConnectTimeout(s) == conn[s] = "dial" /\ NextCandidate(s)

\* All pages were listed: the session is handed over.
Listed(s) ==
  /\ conn[s] = "list" /\ link[Candidate(s)] = "open"
  /\ conn' = [conn EXCEPT ![s] = "mounted"] /\ mounted' = Append(mounted, s)
  /\ UNCHANGED <<cand, link, linkctx, closing, using>>

\* An error, 10 s, the end of the turn: the session is closed, and no other
\* candidate is tried.
ListFails(s) ==
  /\ conn[s] = "list" /\ conn' = [conn EXCEPT ![s] = "release"]
  /\ link' = [link EXCEPT ![Candidate(s)] = IF @ = "open" THEN "closing" ELSE @]
  /\ UNCHANGED <<cand, linkctx, mounted, closing, using>>

\* Close returned or 5 s have passed; then the link's context is cancelled.
Release(s) ==
  /\ conn[s] = "release" /\ conn' = [conn EXCEPT ![s] = "failed"]
  /\ linkctx' = linkctx \cup {Candidate(s)}
  /\ UNCHANGED <<cand, link, mounted, closing, using>>
-----------------------------------------------------------------------------
\* The links.

LinkOpens(l) ==
  /\ link[l] = "dialing" /\ ~LinkEnded(l)
  /\ link' = [link EXCEPT ![l] = "open"]

\* A Connect that fails, a session whose peer goes away.
LinkBreaks(l) ==
  /\ link[l] \in {"dialing", "open"}
  /\ link' = [link EXCEPT ![l] = "dead"]

LinkCloses(l) ==
  /\ link[l] = "closing" /\ link' = [link EXCEPT ![l] = "closed"]

\* Its context ended.
LinkDies(l) ==
  /\ link[l] \in {"dialing", "open", "closing"} /\ LinkEnded(l)
  /\ link' = [link EXCEPT ![l] = "dead"]

LinkStep ==
  /\ \E l \in Links : LinkOpens(l) \/ LinkBreaks(l) \/ LinkCloses(l) \/ LinkDies(l)
  /\ UNCHANGED <<conn, cand, linkctx, mounted, closing, using>>
-----------------------------------------------------------------------------
\* The tools, and the teardown.

CallTool(s) ==
  /\ s \in Range(mounted) /\ using' = s
  /\ UNCHANGED <<conn, cand, link, linkctx, mounted, closing>>

\* A result, an error, the end of the turn.
ToolReturns ==
  /\ using # None /\ using' = None
  /\ UNCHANGED <<conn, cand, link, linkctx, mounted, closing>>

\* closeMCPSessions closes every session that was handed over, ...
CloseAll ==
  /\ closing' = Range(mounted)
  /\ link' = [l \in Links |->
       IF l[1] \in Range(mounted) /\ l = Candidate(l[1]) /\ link[l] = "open"
       THEN "closing" ELSE link[l]]
  /\ UNCHANGED <<conn, cand, linkctx, mounted, using>>

\* Fault: Close is waited for without a bound.
CloseUnbounded(s) ==
  /\ s \in closing /\ link[Candidate(s)] # "closing"
  /\ closing' = closing \ {s} /\ linkctx' = linkctx \cup {Candidate(s)}
  /\ UNCHANGED <<conn, cand, link, mounted, using>>

\* ... waits up to 5 s for each, and cancels its context.
SessionClosed(s) ==
  /\ s \in closing /\ closing' = closing \ {s}
  /\ linkctx' = linkctx \cup {Candidate(s)}
  /\ UNCHANGED <<conn, cand, link, mounted, using>>

ConnectStep == \E s \in Servers :
  Connected(s) \/ ConnectTimeout(s) \/ Listed(s) \/ ListFails(s) \/ Release(s)

CloseStep == \E s \in Servers : SessionClosed(s)
-----------------------------------------------------------------------------
\* A link on a live context is somebody's: its server is still being
\* connected over it or was mounted with it. A candidate that timed out or
\* failed, and a session whose tools could not be listed, are not kept open
\* for the rest of the turn (connectMCPServer).
LinksAreOwned ==
  \A l \in Links :
    link[l] \in {"dialing", "open"} /\ ~LinkEnded(l) =>
      /\ l = Candidate(l[1])
      /\ conn[l[1]] \in {"dial", "list"} \/ l[1] \in Range(mounted)
=============================================================================
