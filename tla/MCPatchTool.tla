------------------------------ MODULE MCPatchTool ------------------------------
\* Patches of one hunk, of two hunks, and of two files over small files; the
\* last two texts make lines that look like file headers.
EXTENDS PatchTool

T(lead, word) == [lead |-> lead, word |-> word]
A == T("plain", "a")
B == T("plain", "b")
D == T("--", "a")
P == T("++", "b")

L(op, t) == [op |-> op, text |-> t, start |-> 0]
Body == {L("space", A), L("-", A), L("-", D), L("+", B), L("+", P), L("+", Empty),
         L("none", Empty), L("@@?", Empty)}
Bodies(n) == UNION {[1..k -> Body] : k \in 0..n}
Hunk1(starts, bodies) == [start : starts, body : bodies]

Change == Hunk1(0..3, {<<L("space", A)>>, <<L("-", A), L("+", B)>>, <<L("-", A)>>,
                       <<L("+", B)>>, <<L("-", D), L("+", P)>>,
                       <<L("-", D), L("+", P), L("space", A)>>})
Create == [from : {"null"}, to : {"p", "q", "ro"},
           hunks : {<<h>> : h \in Hunk1({0}, {<<>>, <<L("+", B)>>, <<L("-", A)>>,
                                              <<L("+", B), L("+", Empty)>>,
                                              <<L("space", A), L("\\", Empty)>>})}]
Delete == [from : {"p"}, to : {"null"},
           hunks : {<<h>> : h \in Hunk1({1}, {<<L("-", D)>>,
                                              <<L("-", D), L("+", P), L("-", A)>>})}]
Edit(to, hunks) == [from |-> to, to |-> to, hunks |-> hunks]

Sections1 == {Edit("p", <<h>>) : h \in Hunk1(0..3, Bodies(3))} \cup Create
Sections2 == {Edit("p", <<g, h>>) : g \in Change, h \in Change}
Sections3 == {Edit(f, <<h>>) : f \in {"p", "q"}, h \in {c \in Change : c.start = 1}}
               \cup Create \cup Delete \cup {Edit("p", <<>>)}
MCIntents == [sections : {<<>>} \cup {<<s>> : s \in Sections1 \cup Sections2}
                           \cup {<<s, t>> : s \in Sections3, t \in Sections3},
              nl : BOOLEAN]

F(lines, nl) == [lines |-> lines, nl |-> nl]
MCDisks == {[f \in Paths |->
               IF f = "p" THEN old ELSE IF f = "q" THEN q
               ELSE IF f = "ro" THEN F(<<>>, FALSE) ELSE NoFile] :
             old \in {F(<<A, A, A>>, TRUE), F(<<A, D, A>>, FALSE), F(<<D>>, TRUE),
                      F(<<>>, FALSE)},
             q \in {NoFile, F(<<A>>, TRUE)}}
=============================================================================
