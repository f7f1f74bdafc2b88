------------------------------ MODULE PatchTool ------------------------------
(***************************************************************************)
(* The apply_patch tool: agent/patch.go and sandboxApplyPatch of           *)
(* agent/tools_sandbox.go. The patch is split into file sections line by   *)
(* line; then each file is read, rebuilt from its hunks line by line, and  *)
(* written back.                                                           *)
(*                                                                         *)
(* A line of a patch is its first character (op) and the rest; what makes  *)
(* parsing hard is kept: a removed line "-- x" reads as a file header      *)
(* "--- x", an added "++ x" as "+++ x". The text of a line is therefore    *)
(* its lead ("-- ", "++ " or neither) and a word, and a path is a word.    *)
(***************************************************************************)
EXTENDS Integers, Sequences, SequencesExt

CONSTANTS
  Paths,      \* words a line may be made of, and paths of files
  Blank,      \* the empty one
  DevNull,    \* "/dev/null"
  Refused,    \* paths resolveForWrite rejects
  NoFile,     \* the content of a path that does not exist
  Intents,    \* the patches meant: sequences of sections
  Disks       \* the contents the files may have at the start

Leads == {"plain", "--", "++"}
Texts == [lead : Leads, word : Paths \cup {DevNull}]
Empty == [lead |-> "plain", word |-> Blank]
\* Of a line of a hunk; "@@" begins one, "@@?" is a header that does not parse.
Ops   == {"-", "+", "space", "none", "\\", "@@?"}
Lines == [op : Ops \cup {"@@"}, text : Texts, start : Nat]
Hunks == [start : Nat, body : Seq([op : Ops, text : Texts, start : Nat])]
Files == [lines : Seq(Texts), nl : BOOLEAN] \cup {NoFile}

ASSUME PatchAssumption ==
  /\ Blank \in Refused /\ Refused \subseteq Paths /\ DevNull \notin Paths
  /\ Intents \subseteq
       [sections : Seq([from : Paths \cup {DevNull}, to : Paths \cup {DevNull},
                        hunks : Seq(Hunks)]), nl : BOOLEAN]
  /\ Disks \subseteq [Paths -> Files]

VARIABLES
  intent,    \* the patch the model means ...
  patch,     \* ... and its lines
  parse,     \* "scan", "section", "hunk" (countHunkBodyLines), "done"
  pos,       \* the line the parser is at
  files,     \* the sections parsed: from, to and the lines of the hunks
  disk,      \* the sandbox's files ...
  disk0,     \* history: ... and what they were at the start
  apply,     \* "rest", "lines", "write", "over"
  at, next,  \* the section and the line of its hunks that are next
  existing,  \* existingLines and whether they end in a newline
  out,       \* the lines of the result
  cursor,    \* cursor and copiedCursor, which always agree
  src,       \* history: where a line of the result comes from, 0 if added
  gone,      \* history: the lines that were removed
  ordered,   \* history: no hunk starts before the end of the one before it
  reply

parseVars == <<intent, patch, parse, pos, files>>
applyVars == <<existing, out, cursor, src, gone, ordered>>
vars == <<parseVars, disk, disk0, apply, at, next, applyVars, reply>>

Line(op, lead, word) == [op |-> op, text |-> [lead |-> lead, word |-> word], start |-> 0]
EmptyLine == Line("none", "plain", Blank)
HunkLines(h) == <<[op |-> "@@", text |-> Empty, start |-> h.start]>> \o h.body
BodyLines(s) == FlattenSeq([i \in DOMAIN s.hunks |-> HunkLines(s.hunks[i])])
SectionLines(s) ==
  <<Line("-", "--", s.from), Line("+", "++", s.to)>> \o BodyLines(s)

\* The patch as text; a final newline splits off an empty last line.
Render(p) ==
  FlattenSeq([i \in DOMAIN p.sections |-> SectionLines(p.sections[i])])
    \o IF p.nl THEN <<EmptyLine>> ELSE <<>>

Init ==
  /\ intent \in Intents /\ disk \in Disks /\ disk0 = disk
  /\ patch = Render(intent) /\ parse = "scan" /\ pos = 1 /\ files = <<>>
  /\ apply = "rest" /\ at = 1 /\ next = 1 /\ reply = "none"
  /\ existing = [lines |-> <<>>, nl |-> FALSE] /\ out = <<>> /\ cursor = 0
  /\ src = <<>> /\ gone = {} /\ ordered = TRUE
-----------------------------------------------------------------------------
\* parseUnifiedDiff.

IsFrom(i) == i <= Len(patch) /\ patch[i].op = "-" /\ patch[i].text.lead = "--"
IsTo(i)   == i <= Len(patch) /\ patch[i].op = "+" /\ patch[i].text.lead = "++"
IsHunk(i) == i <= Len(patch) /\ patch[i].op = "@@"

IsFileHeader(i) == IsFrom(i) /\ IsTo(i + 1)

\* Fault: any pair that looks like a header is one.
AnyFileHeader(i) == IsFileHeader(i)

IsSafeFileHeader(i) ==
  /\ IsFileHeader(i)
  /\ i + 2 > Len(patch) \/ IsHunk(i + 2) \/ IsFrom(i + 2)

AddHunkLine ==
  /\ files' = [files EXCEPT ![Len(files)].hunks = Append(@, patch[pos])]
  /\ pos' = pos + 1

\* Up to a header; the section of a deleted file is skipped.
Scan ==
  /\ parse = "scan" /\ pos <= Len(patch)
  /\ IF IsFileHeader(pos)
     THEN /\ pos' = pos + 2
          /\ LET to == patch[pos + 1].text.word
             IN  IF to = DevNull THEN UNCHANGED <<parse, files>>
                 ELSE /\ parse' = "section"
                      /\ files' = Append(files, [from  |-> patch[pos].text.word,
                                                 to    |-> to,
                                                 hunks |-> <<>>])
     ELSE pos' = pos + 1 /\ UNCHANGED <<parse, files>>

\* Between hunks: a hunk, the next header, or a stray line that is kept. (Empty
\* lines at the end of a section stay here too: the applier skips them.)
Section ==
  /\ parse = "section" /\ pos <= Len(patch)
  /\ IF ~IsHunk(pos) /\ IsFileHeader(pos)
     THEN parse' = "scan" /\ UNCHANGED <<pos, files>>
     ELSE AddHunkLine /\ parse' = IF IsHunk(pos) THEN "hunk" ELSE parse

\* In a hunk, whatever its header counts: up to the next hunk or safe header.
HunkBody ==
  /\ parse = "hunk" /\ pos <= Len(patch)
  /\ IF IsHunk(pos) \/ IsSafeFileHeader(pos)
     THEN parse' = "section" /\ UNCHANGED <<pos, files>>
     ELSE AddHunkLine /\ UNCHANGED parse

ParseEnds ==
  /\ parse # "done" /\ pos > Len(patch)
  /\ parse' = "done" /\ UNCHANGED <<pos, files>>

Parse ==
  /\ Scan \/ Section \/ HunkBody \/ ParseEnds
  /\ UNCHANGED <<intent, patch, disk, disk0, apply, at, next, applyVars, reply>>
-----------------------------------------------------------------------------
\* applyHunksToText.

File  == files[at]
IsNew == File.from = DevNull
Old   == existing.lines
Hunk  == File.hunks[next]

Answer(what) == apply' = "over" /\ reply' = what

\* resolveForWrite and getFile, which may fail: the file must exist, or not if
\* it is new.
OpenFile ==
  /\ parse = "done" /\ apply = "rest" /\ at <= Len(files)
  /\ \/ /\ File.to \in Refused \/ (disk[File.to] = NoFile) # IsNew
        /\ Answer("rejected") /\ UNCHANGED <<next, applyVars>>
     \/ /\ File.to \notin Refused
        /\ Answer("failed") /\ UNCHANGED <<next, applyVars>>
     \/ /\ File.to \notin Refused /\ (disk[File.to] = NoFile) = IsNew
        /\ apply' = "lines" /\ next' = 1 /\ UNCHANGED reply
        /\ existing' = IF IsNew THEN [lines |-> <<>>, nl |-> FALSE]
                       ELSE disk[File.to]
        /\ out' = <<>> /\ cursor' = 0 /\ src' = <<>> /\ gone' = {}
        /\ ordered' = TRUE
  /\ UNCHANGED <<parseVars, disk, disk0, at>>

OnLine(op) == apply = "lines" /\ next <= Len(File.hunks) /\ Hunk.op = op

Rejected == Answer("rejected") /\ UNCHANGED <<next, applyVars>>
NextLine == next' = next + 1 /\ UNCHANGED <<apply, existing, reply>>

\* The old lines from the cursor to line n, if there are so many.
SpanLen(n) == (IF n < Len(Old) THEN n ELSE Len(Old)) - cursor
Span(n)    == [i \in 1..SpanLen(n) |-> Old[cursor + i]]
SpanSrc(n) == [i \in 1..SpanLen(n) |-> cursor + i]

\* Fault: the region before a hunk is not copied.
JumpTo(n) ==
  /\ cursor' = n /\ ordered' = (ordered /\ n >= cursor)
  /\ UNCHANGED <<out, src>>

\* A new file has nothing to copy, and behind the cursor nothing is copied.
Copy(n) ==
  IF ~IsNew /\ n > cursor
  THEN out' = out \o Span(n) /\ src' = src \o SpanSrc(n)
  ELSE UNCHANGED <<out, src>>

\* What lies between the hunks is copied.
MoveTo(n) == Copy(n) /\ cursor' = n /\ ordered' = (ordered /\ n >= cursor)

\* @@ -start: the cursor goes to the line before; a start of 0 is one of 1.
Target == IF Hunk.start = 0 THEN 0 ELSE Hunk.start - 1

\* A cursor past the end of the file, and a hunk further on: the slice of the
\* lines between ends before it begins, and the program stops.
OutOfRange == ~IsNew /\ Target > cursor /\ cursor > Len(Old)

HunkHeader ==
  /\ OnLine("@@")
  /\ IF OutOfRange THEN Answer("panic") /\ UNCHANGED <<next, applyVars>>
     ELSE NextLine /\ MoveTo(Target) /\ UNCHANGED gone

\* A line that begins with @@ and does not parse; the parser keeps it in the hunk.
BadHeader == OnLine("@@?") /\ Rejected

AddLine ==
  /\ OnLine("+") /\ NextLine
  /\ out' = Append(out, Hunk.text) /\ src' = Append(src, 0)
  /\ UNCHANGED <<cursor, gone, ordered>>

\* A line of the hunk is where the cursor says.
Matches == cursor < Len(Old) /\ Old[cursor + 1] = Hunk.text

RemoveLine ==
  /\ OnLine("-")
  /\ IF IsNew \/ ~Matches THEN Rejected
     ELSE /\ NextLine /\ cursor' = cursor + 1 /\ gone' = gone \cup {cursor + 1}
          /\ UNCHANGED <<out, src, ordered>>

ContextLine ==
  /\ OnLine("space")
  /\ IF ~IsNew /\ ~Matches THEN Rejected
     ELSE /\ NextLine /\ cursor' = cursor + 1
          /\ out' = Append(out, Hunk.text)
          /\ src' = Append(src, IF IsNew THEN 0 ELSE cursor + 1)
          /\ UNCHANGED <<gone, ordered>>

\* Empty lines and "\ No newline at end of file".
OtherLine ==
  /\ (OnLine("none") \/ OnLine("\\")) /\ NextLine
  /\ UNCHANGED <<out, cursor, src, gone, ordered>>

\* The rest of the file is copied.
LastLine ==
  /\ apply = "lines" /\ next > Len(File.hunks) /\ apply' = "write"
  /\ Copy(Len(Old))
  /\ UNCHANGED <<next, existing, cursor, gone, ordered, reply>>

ApplyLine ==
  /\ \/ OpenFile
     \/ HunkHeader \/ BadHeader \/ AddLine \/ RemoveLine \/ ContextLine
     \/ OtherLine \/ LastLine
  /\ UNCHANGED <<parseVars, disk, disk0, at>>

\* The lines as a file: an empty one has none, and a last empty line without
\* a newline is a newline.
Content(lines, nl) ==
  IF nl THEN [lines |-> lines, nl |-> TRUE]
  ELSE IF lines \in {<<>>, <<Empty>>} THEN [lines |-> <<>>, nl |-> FALSE]
  ELSE IF Last(lines) = Empty THEN [lines |-> Front(lines), nl |-> TRUE]
  ELSE [lines |-> lines, nl |-> FALSE]

\* PutFile, which may fail; the final newline is restored unless nothing is
\* left.
WriteFile ==
  /\ apply = "write"
  /\ \/ /\ disk' = [disk EXCEPT ![File.to] =
             Content(out, ~IsNew /\ existing.nl /\ out \notin {<<>>, <<Empty>>})]
        /\ apply' = "rest" /\ at' = at + 1 /\ UNCHANGED reply
     \/ Answer("failed") /\ UNCHANGED <<disk, at>>
  /\ UNCHANGED <<parseVars, disk0, next, applyVars>>

\* A patch without sections is an error.
Finish ==
  /\ parse = "done" /\ apply = "rest" /\ at > Len(files)
  /\ Answer(IF files = <<>> THEN "rejected" ELSE "ok")
  /\ UNCHANGED <<parseVars, disk, disk0, at, next, applyVars>>

Next == Parse \/ ApplyLine \/ WriteFile \/ Finish

Spec == Init /\ [][Next]_vars
-----------------------------------------------------------------------------
\* What a patch means, and which patches the tool promises to apply so.

TextsOf(h, ops) ==
  FlattenSeq([i \in DOMAIN h.body |->
    IF h.body[i].op \in ops THEN <<h.body[i].text>> ELSE <<>>])
OldOf(h) == TextsOf(h, {"-", "space"})
NewOf(h) == TextsOf(h, {"+", "space"})
EndOf(h) == h.start + Len(OldOf(h))

Wanted ==
  FlattenSeq([n \in DOMAIN intent.sections |->
    IF intent.sections[n].to = DevNull THEN <<>> ELSE <<intent.sections[n]>>])

\* The hunks replace what they say is there.
Fits(lines, hunks) ==
  \A j \in DOMAIN hunks :
    /\ EndOf(hunks[j]) - 1 <= Len(lines)
    /\ SubSeq(lines, hunks[j].start, EndOf(hunks[j]) - 1) = OldOf(hunks[j])

Replaced(lines, hunks) ==
  LET EndBefore(j) == IF j = 1 THEN 1 ELSE EndOf(hunks[j - 1])
  IN  FlattenSeq([j \in DOMAIN hunks |->
        SubSeq(lines, EndBefore(j), hunks[j].start - 1) \o NewOf(hunks[j])])
      \o SubSeq(lines, EndBefore(Len(hunks) + 1), Len(lines))

Malformed(h) == \E i \in DOMAIN h.body : h.body[i].op = "@@?"

Possible(files0, s) ==
  /\ s.to \notin Refused
  /\ \A j \in DOMAIN s.hunks : ~Malformed(s.hunks[j])
  /\ IF s.from = DevNull
     THEN /\ files0[s.to] = NoFile
          /\ \A j \in DOMAIN s.hunks : TextsOf(s.hunks[j], {"-"}) = <<>>
     ELSE files0[s.to] # NoFile /\ Fits(files0[s.to].lines, s.hunks)

Patched(files0, s) ==
  [files0 EXCEPT ![s.to] =
     IF s.from = DevNull
     THEN Content(FlattenSeq([j \in DOMAIN s.hunks |-> NewOf(s.hunks[j])]), FALSE)
     ELSE LET lines == Replaced(@.lines, s.hunks)
          IN  Content(lines, @.nl /\ lines \notin {<<>>, <<Empty>>})]

\* The files after the first n sections.
Expected[n \in Nat] ==
  IF n = 0 THEN disk0 ELSE Patched(Expected[n - 1], Wanted[n])

\* No removed and added line that read as a file header end a hunk, but where
\* the final newline of the patch follows them, or precede a removed line that
\* reads so.
NoLookAlike ==
  \A n \in DOMAIN intent.sections :
    LET s == intent.sections[n]
        Reads(j, i, op, lead) ==
          LET body == s.hunks[j].body
          IN  i \in DOMAIN body /\ body[i].op = op /\ body[i].text.lead = lead
        Ends(j, i) == i = Len(s.hunks[j].body)
        AtTheEnd(j) == intent.nl /\ n = Len(intent.sections) /\ j = Len(s.hunks)
    IN  \A j \in DOMAIN s.hunks : \A i \in DOMAIN s.hunks[j].body :
          Reads(j, i, "-", "--") /\ Reads(j, i + 1, "+", "++") =>
            /\ Ends(j, i + 1) => AtTheEnd(j)
            /\ ~Reads(j, i + 2, "-", "--")

\* Every section has hunks, those of a deleted file add nothing, every hunk of
\* an existing file has old lines and starts after the one before it.
Usual ==
  \A n \in DOMAIN intent.sections :
    LET s == intent.sections[n]
        Follows(j) == /\ s.hunks[j].start > 0 /\ OldOf(s.hunks[j]) # <<>>
                      /\ j > 1 => EndOf(s.hunks[j - 1]) <= s.hunks[j].start
    IN  /\ s.hunks # <<>>
        /\ \A j \in DOMAIN s.hunks :
             /\ s.from = DevNull \/ Follows(j)
             /\ s.to = DevNull => TextsOf(s.hunks[j], {"+"}) = <<>>

Regular == Usual /\ NoLookAlike
-----------------------------------------------------------------------------
\* A patch is cut into the sections it was written as: lines of a hunk that
\* look like file headers stay in it (countHunkBodyLines, isSafeFileHeader).
\* The one empty line behind a final newline may be added to a section.
SectionsRecovered ==
  LET Same(f, s) == /\ f.from = s.from /\ f.to = s.to
                    /\ f.hunks \in {BodyLines(s), Append(BodyLines(s), EmptyLine)}
  IN  parse = "done" /\ Regular =>
        /\ Len(files) = Len(Wanted)
        /\ \A n \in DOMAIN files : Same(files[n], Wanted[n])

\* A patch that only deletes names no file to change: the hunks of a deleted
\* file are walked past, because "the hunk lines that follow are not "--- " lines".
\* They can be, and look like a header then.
DeletionsAreSkipped ==
  parse = "done" /\ Wanted = <<>> => files = <<>>

\* At any time the files are what the sections written so far make of them
\* ("standard unified diff"), a section that cannot be applied exactly is
\* rejected, and no other is.
PatchIsExact ==
  Regular =>
    /\ disk = Expected[at - 1] /\ reply # "panic"
    /\ reply = "ok" => at = Len(Wanted) + 1
    /\ reply = "rejected" => Wanted = <<>> \/ ~Possible(disk, Wanted[at])
    /\ apply = "write" => Possible(disk, Wanted[at])

\* A patch does what its text says or is refused: it is cut where it was cut
\* when it was written, and applied to the letter.
PatchMeansWhatItSays == SectionsRecovered /\ PatchIsExact

\* A pair that only looks like a header but ends a section "is rejected by the
\* applier's strict context matching rather than applied silently": whatever the
\* lines look like, what is written is what some of the sections say. (The lines
\* before the pair are applied and written; what is rejected is the rest.)
CornerIsRejected ==
  Usual /\ parse = "done" => \E n \in 0..Len(Wanted) : disk = Expected[n]

\* "An out-of-file hunk start then fails at the first context/'-' line below": it
\* has none if it only adds lines, and the hunk after it stops the program.
PatchNeverPanics == reply # "panic"

Sources == {src[i] : i \in DOMAIN src} \ {0}

\* What was copied is the old text, and in its order.
CopiesAreTrue ==
  /\ Len(src) = Len(out)
  /\ \A i \in DOMAIN src : src[i] # 0 =>
       src[i] \in DOMAIN Old /\ out[i] = Old[src[i]]
CopiesAscend ==
  ordered => \A i, j \in DOMAIN src : i < j /\ src[i] # 0 /\ src[j] # 0 => src[i] < src[j]

\* Whatever the hunks are, as long as none starts before the end of the one
\* before it: if a result is written, each line of the file is in it once and in
\* its place, or was removed by a line that quoted it ("content outside the
\* hunks is preserved verbatim"). Some hunks past the end leave no result: see
\* PatchNeverPanics.
LinesSurvive ==
  /\ CopiesAreTrue /\ CopiesAscend
  /\ apply = "write" /\ ordered =>
       Sources \cap gone = {} /\ Sources \cup gone = DOMAIN Old

\* Without that condition a hunk that goes back copies lines twice.
LinesSurviveAnyOrder ==
  apply = "write" => Sources \cap gone = {} /\ \A i, j \in DOMAIN src :
    i # j /\ src[i] # 0 => src[i] # src[j]
=============================================================================
