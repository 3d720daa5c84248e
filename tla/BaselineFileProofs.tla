------------------------- MODULE BaselineFileProofs -------------------------
(***************************************************************************)
(* Proofs about BaselineFile for files of any length: what one line more   *)
(* does to the two scanners, what they read of a text that is composed, or *)
(* cut short, and from that the refinement of the gate.                    *)
(***************************************************************************)
EXTENDS BaselineFile, FiniteSetTheorems, SequenceLemmas

-----------------------------------------------------------------------------
(* The scan, one line at a time *)

\* s is the function by which Scan scans the first n lines of f.
Scanning(s, f, n) == s = [i \in 0..n |-> IF i = 0 THEN BeforeFirst ELSE ScanLine(s[i - 1], f[i])]

\* What such a function has after line i.
LEMMA ScanningAt ==
  ASSUME NEW f, NEW n \in Nat, NEW s, Scanning(s, f, n), NEW i \in 0..n
  PROVE  s[i] = IF i = 0 THEN BeforeFirst ELSE ScanLine(s[i - 1], f[i])
BY DEF Scanning

\* Such a function for n lines extends to one for n + 1.
LEMMA ScanExtends ==
  ASSUME NEW f, NEW n \in Nat, NEW s, Scanning(s, f, n)
  PROVE  \E t : Scanning(t, f, n + 1)
<1> DEFINE t == [i \in 0..(n + 1) |-> IF i = n + 1 THEN ScanLine(s[n], f[n + 1]) ELSE s[i]]
<1>1. ASSUME NEW i \in 0..(n + 1)
      PROVE  t[i] = IF i = 0 THEN BeforeFirst ELSE ScanLine(t[i - 1], f[i])
  <2>1. CASE i = n + 1
    <3>1. i - 1 = n /\ i # 0 /\ n \in 0..(n + 1) /\ n # n + 1 BY <2>1
    <3>2. t[n] = s[n] BY <3>1
    <3> QED BY <2>1, <3>1, <3>2
  <2>2. CASE i # n + 1 /\ i # 0
    <3>1. i \in 0..n /\ i - 1 \in 0..(n + 1) /\ i - 1 # n + 1 BY <2>2
    <3>2. s[i] = ScanLine(s[i - 1], f[i]) BY <2>2, <3>1, ScanningAt
    <3>3. t[i - 1] = s[i - 1] BY <3>1
    <3> QED BY <2>2, <3>2, <3>3
  <2>3. CASE i # n + 1 /\ i = 0
    <3>1. 0 \in 0..n OBVIOUS
    <3>2. s[0] = BeforeFirst BY <3>1, ScanningAt
    <3> QED BY <2>3, <3>2
  <2> QED BY <2>1, <2>2, <2>3
<1>2. Scanning(t, f, n + 1) BY <1>1 DEF Scanning
<1> QED BY <1>2

\* There is such a function, for any number of lines.
LEMMA ScanExists ==
  ASSUME NEW f, NEW n \in Nat
  PROVE  \E s : Scanning(s, f, n)
<1> DEFINE G == {k \in Nat : \E s : Scanning(s, f, k)}
<1>1. 0 \in G
  <2>1. Scanning([i \in 0..0 |-> BeforeFirst], f, 0) BY DEF Scanning
  <2> QED BY <2>1
<1>2. \A k \in Nat : k \in G => k + 1 \in G BY ScanExtends
<1> HIDE DEF G
<1>3. Nat \subseteq G BY <1>1, <1>2, Induction
<1> QED BY <1>3 DEF G

\* Of two scans of files that begin alike, where one goes a line further.
LEMMA ScansAgree ==
  ASSUME NEW f, NEW g, NEW n \in Nat, SameTo(f, g, n),
         NEW s, Scanning(s, f, n), NEW t, Scanning(t, g, n + 1)
  PROVE  s[n] = t[n]
<1> DEFINE G == {k \in Nat : k \in 0..n => s[k] = t[k]}
<1>1. 0 \in G
  <2>1. 0 \in 0..n /\ 0 \in 0..(n + 1) /\ n + 1 \in Nat OBVIOUS
  <2>2. s[0] = BeforeFirst /\ t[0] = BeforeFirst BY <2>1, ScanningAt
  <2> QED BY <2>2
<1>2. ASSUME NEW k \in Nat, k \in G PROVE k + 1 \in G
  <2>1. SUFFICES ASSUME k + 1 \in 0..n PROVE s[k + 1] = t[k + 1] OBVIOUS
  <2>2. n + 1 \in Nat /\ k + 1 \in 0..(n + 1) /\ k + 1 # 0 /\ (k + 1) - 1 = k BY <2>1
  <2>3. s[k + 1] = ScanLine(s[k], f[k + 1]) BY <2>1, <2>2, ScanningAt
  <2>4. t[k + 1] = ScanLine(t[k], g[k + 1]) BY <2>2, ScanningAt
  <2>5. f[k + 1] = g[k + 1] BY <2>1 DEF SameTo
  <2>6. s[k] = t[k] BY <1>2, <2>1
  <2> QED BY <2>3, <2>4, <2>5, <2>6
<1> HIDE DEF G
<1>3. Nat \subseteq G BY <1>1, <1>2, Induction
<1> QED BY <1>3 DEF G

\* Scan is the last value of such a function.
LEMMA ScanIs ==
  ASSUME NEW f, NEW n \in Nat, Len(f) = n
  PROVE  \E s : Scanning(s, f, n) /\ Scan(f) = s[n]
<1> DEFINE s == CHOOSE s : Scanning(s, f, n)
<1>1. Scanning(s, f, n) BY ScanExists
<1>2. Scan(f) = s[n] BY DEF Scan, Scanning
<1> QED BY <1>1, <1>2

\* A file of no lines is scanned to the state before the first line.
LEMMA ScanEmpty == Scan(<<>>) = BeforeFirst
<1>1. PICK s : Scanning(s, <<>>, 0) /\ Scan(<<>>) = s[0] BY ScanIs
<1> QED BY <1>1, ScanningAt

\* The scan of a file with a line more is a step of the scan of the file.
LEMMA ScanStep ==
  ASSUME NEW S, NEW f \in Seq(S), NEW l \in S
  PROVE  Scan(Append(f, l)) = ScanLine(Scan(f), l)
<1> DEFINE n == Len(f)
           g == Append(f, l)
<1>1. n \in Nat OBVIOUS
<1>2. Len(g) = n + 1 /\ g[n + 1] = l /\ SameTo(f, g, n) BY AppendIs DEF SameTo
<1> HIDE DEF g
<1>3. PICK s : Scanning(s, f, n) /\ Scan(f) = s[n] BY <1>1, ScanIs
<1> HIDE DEF n
<1>4. n + 1 \in Nat /\ n + 1 \in 0..(n + 1) /\ n + 1 # 0 /\ (n + 1) - 1 = n BY <1>1
<1>5. PICK t : Scanning(t, g, n + 1) /\ Scan(g) = t[n + 1] BY <1>2, <1>4, ScanIs
<1>6. s[n] = t[n] BY <1>1, <1>2, <1>3, <1>5, ScansAgree
<1>7. t[n + 1] = ScanLine(t[n], g[n + 1]) BY <1>4, <1>5, ScanningAt
<1> QED BY <1>2, <1>3, <1>5, <1>6, <1>7 DEF g

-----------------------------------------------------------------------------
(* Lines *)

Line(k) == <<k, Tab, Hash, Coord>>

\* A line without the token before place m + 1, and with it there, is cut after m.
LEMMA CutIs ==
  ASSUME NEW S, NEW line \in Seq(S), NEW token, NEW m \in 0..Len(line),
         \A i \in 1..m : line[i] # token, m = Len(line) \/ line[m + 1] = token
  PROVE  CutAt(line, token) = SubSeq(line, 1, m)
<1> DEFINE P == {Len(line)} \cup {j - 1 : j \in {i \in DOMAIN line : line[i] = token}}
<1>1. DOMAIN line = 1..Len(line) /\ Len(line) \in Nat OBVIOUS
<1> DEFINE n == Len(line)
<1>n. n \in Nat /\ m \in 0..n /\ DOMAIN line = 1..n BY <1>1
<1>t. m = n \/ line[m + 1] = token OBVIOUS
<1> HIDE DEF n
<1>2. m = n \/ \E i \in 1..n : line[i] = token /\ m = i - 1
  <2>1. ASSUME m # n PROVE m + 1 \in 1..n /\ m = (m + 1) - 1 BY <1>n, <2>1
  <2> QED BY <1>t, <2>1
<1>3. ASSUME NEW i \in 1..n, line[i] = token PROVE i - 1 \in Int /\ m <= i - 1
  <2>1. i \notin 1..m BY <1>3
  <2> QED BY <1>n, <2>1
<1>4. P = {n} \cup {j - 1 : j \in {i \in 1..n : line[i] = token}} BY <1>n DEF n
<1>5. P \subseteq Int /\ m \in P /\ \A x \in P : m <= x BY <1>n, <1>2, <1>3, <1>4
<1> HIDE DEF P
<1>6. Min(P) = m BY <1>5, MinIs
<1> QED BY <1>6 DEF CutAt, P

\* A line without the token is kept whole, one that starts with it is cut to nothing,
\* and one that has it second is cut to its first token.
LEMMA CutCases ==
  ASSUME NEW S, NEW line \in Seq(S), NEW token
  PROVE  /\ (\A i \in 1..Len(line) : line[i] # token) => CutAt(line, token) = line
         /\ line # <<>> /\ line[1] = token => CutAt(line, token) = <<>>
         /\ Len(line) > 1 /\ line[1] # token /\ line[2] = token => CutAt(line, token) = <<line[1]>>
<1>1. Len(line) \in Nat OBVIOUS
<1>2. ASSUME \A i \in 1..Len(line) : line[i] # token PROVE CutAt(line, token) = line
  <2>1. Len(line) \in 0..Len(line) BY <1>1
  <2>2. CutAt(line, token) = SubSeq(line, 1, Len(line)) BY <1>2, <2>1, CutIs
  <2> QED BY <2>2, SubSeqFull
<1>3. ASSUME line # <<>>, line[1] = token PROVE CutAt(line, token) = <<>>
  <2>1. 0 \in 0..Len(line) /\ line[0 + 1] = token BY <1>1, <1>3
  <2>2. CutAt(line, token) = SubSeq(line, 1, 0) BY <2>1, CutIs
  <2> QED BY <2>2, SubSeqEmpty
<1>4. ASSUME Len(line) > 1, line[1] # token, line[2] = token PROVE CutAt(line, token) = <<line[1]>>
  <2>1. 1 \in 0..Len(line) /\ line[1 + 1] = token /\ \A i \in 1..1 : line[i] # token BY <1>1, <1>4
  <2>2. CutAt(line, token) = SubSeq(line, 1, 1) BY <2>1, CutIs
  <2>3. line # <<>> BY <1>4
  <2> QED BY <2>2, <2>3, FirstOf
<1> QED BY <1>2, <1>3, <1>4

\* The key of a line is cut at its first TAB or `#`.
LEMMA KeyTexts ==
  /\ KeyText(<<>>) = <<>>
  /\ \A l \in CommentLines : KeyText(l) = <<>>
  /\ \A k \in Keys : KeyText(<<k>>) = <<k>> /\ KeyText(Line(k)) = <<k>>
<1>1. ASSUME NEW token PROVE CutAt(<<>>, token) = <<>>
  <2>1. <<>> \in Seq({token}) /\ \A i \in 1..Len(<<>>) : FALSE OBVIOUS
  <2> QED BY <2>1, CutCases
<1>2. ASSUME NEW k, NEW token
      PROVE  CutAt(<<k>>, token) = IF k = token THEN <<>> ELSE <<k>>
  <2> DEFINE line == <<k>>
  <2>1. line \in Seq({k}) /\ line # <<>> /\ Len(line) = 1 /\ line[1] = k OBVIOUS
  <2> HIDE DEF line
  <2>2. k # token => \A i \in 1..Len(line) : line[i] # token BY <2>1
  <2>3. k # token => CutAt(line, token) = line BY <2>1, <2>2, CutCases
  <2>4. k = token => CutAt(line, token) = <<>> BY <2>1, CutCases
  <2> QED BY <2>3, <2>4 DEF line
<1>3. ASSUME NEW w PROVE CutAt(CutAt(<<Hash, w>>, Tab), Hash) = <<>>
  <2> DEFINE line == <<Hash, w>>
  <2>1. line \in Seq({Hash, w}) /\ line # <<>> /\ Len(line) = 2 /\ line[1] = Hash /\ line[2] = w OBVIOUS
  <2> HIDE DEF line
  <2>2. CASE w = Tab
    <3>1. Len(line) > 1 /\ line[1] # Tab /\ line[2] = Tab BY <2>1, <2>2, TokensAssumption
    <3>2. CutAt(line, Tab) = <<line[1]>> BY <2>1, <3>1, CutCases
    <3> QED BY <1>2, <2>1, <3>2 DEF line
  <2>3. CASE w # Tab
    <3>1. \A i \in 1..Len(line) : line[i] # Tab BY <2>1, <2>3, TokensAssumption
    <3>2. CutAt(line, Tab) = line BY <2>1, <3>1, CutCases
    <3>3. CutAt(line, Hash) = <<>> BY <2>1, CutCases
    <3> QED BY <3>2, <3>3 DEF line
  <2> QED BY <2>2, <2>3
<1>4. ASSUME NEW k \in Keys PROVE CutAt(Line(k), Tab) = <<k>>
  <2> DEFINE line == Line(k)
  <2>1. line \in Seq({k, Tab, Hash, Coord}) BY DEF Line
  <2>2. Len(line) > 1 /\ line[1] = k /\ line[1] # Tab /\ line[2] = Tab BY TokensAssumption DEF Line
  <2> HIDE DEF line
  <2>3. CutAt(line, Tab) = <<line[1]>> BY <2>1, <2>2, CutCases
  <2> QED BY <2>2, <2>3 DEF line
<1>5. \A k \in Keys : k # Tab /\ k # Hash BY TokensAssumption
<1>6. \A k \in Keys : KeyText(<<k>>) = <<k>> /\ KeyText(Line(k)) = <<k>> BY <1>2, <1>4, <1>5 DEF KeyText
<1> QED BY <1>1, <1>3, <1>6 DEF KeyText, CommentLines

-----------------------------------------------------------------------------
(* What one line more does *)

\* ReadBaseline reads of one line more the key text of that line, if it has one.
LEMMA ReadStep ==
  ASSUME NEW S, NEW f \in Seq(S), NEW l \in S
  PROVE  ReadBaseline(Append(f, l)) = ReadBaseline(f) \cup ({KeyText(l)} \ {<<>>})
<1>1. DOMAIN Append(f, l) = DOMAIN f \cup {Len(f) + 1} OBVIOUS
<1>2. \A i \in DOMAIN f : Append(f, l)[i] = f[i] OBVIOUS
<1>3. Append(f, l)[Len(f) + 1] = l OBVIOUS
<1> QED BY <1>1, <1>2, <1>3 DEF ReadBaseline

\* Each line of a file is of one kind: blank, a comment or an entry.
LEMMA LineKinds ==
  /\ IsBlank(<<>>)
  /\ \A l \in CommentLines : IsComment(l) /\ ~IsBlank(l) /\ l \in FileLines
  /\ \A l \in EntryLines : ~IsComment(l) /\ ~IsBlank(l) /\ l \in FileLines
  /\ \A k \in Keys : <<k>> \in EntryLines /\ Line(k) \in EntryLines
  /\ Header \in Seq(FileLines) /\ <<>> \in FileLines
<1>1. \A w : <<Hash, w>> # <<>> /\ Head(<<Hash, w>>) = Hash OBVIOUS
<1>2. \A k \in Keys : <<k>> # <<>> /\ Head(<<k>>) = k OBVIOUS
<1>3. \A k \in Keys : Line(k) # <<>> /\ Head(Line(k)) = k BY DEF Line
<1>4. \A k \in Keys : k # Hash BY TokensAssumption
<1>5. <<Hash, Generated>> \in FileLines BY DEF FileLines, CommentLines
<1> QED BY <1>1, <1>2, <1>3, <1>4, <1>5
     DEF IsBlank, IsComment, FileLines, CommentLines, EntryLines, Header, Line

\* What a scan has of a file's lines.
ScanStates == [inHeader : BOOLEAN, pending : Seq(CommentLines),
               out : UNION {[T -> Seq(CommentLines) \ {<<>>}] : T \in SUBSET Seq(Keys)}]

\* One line of a file leads the scan from one of its states to another.
LEMMA LineStates ==
  ASSUME NEW s \in ScanStates, NEW l \in FileLines
  PROVE  ScanLine(s, l) \in ScanStates
<1>1. CASE l = <<>>
  <2>1. IsBlank(l) /\ ~IsComment(l) /\ ~IsEntry(l) BY <1>1 DEF IsBlank, IsComment, IsEntry
  <2>2. ScanLine(s, l) = [s EXCEPT !.inHeader = FALSE, !.pending = <<>>] BY <2>1 DEF ScanLine
  <2>3. <<>> \in Seq(CommentLines) OBVIOUS
  <2>4. [s EXCEPT !.inHeader = FALSE, !.pending = <<>>] \in ScanStates BY <2>3 DEF ScanStates
  <2> QED BY <2>2, <2>4
<1>2. CASE l \in CommentLines
  <2>1. IsComment(l) /\ ~IsBlank(l) /\ ~IsEntry(l) BY <1>2, LineKinds DEF IsEntry
  <2>2. ScanLine(s, l) = IF s.inHeader THEN s ELSE [s EXCEPT !.pending = Append(@, l)]
    BY <2>1 DEF ScanLine
  <2>3. Append(s.pending, l) \in Seq(CommentLines) BY <1>2 DEF ScanStates
  <2>4. [s EXCEPT !.pending = Append(@, l)] \in ScanStates BY <2>3 DEF ScanStates
  <2> QED BY <2>2, <2>4
<1>3. CASE l \in EntryLines
  <2>1. IsEntry(l) /\ ~IsBlank(l) /\ ~IsComment(l) BY <1>3, LineKinds DEF IsEntry
  <2>2. ScanLine(s, l) = [inHeader |-> FALSE, pending |-> <<>>, out |-> Recorded(s, l)]
    BY <2>1 DEF ScanLine
  <2>3. KeyText(l) \in Seq(Keys)
    <3>1. \A k \in Keys : <<k>> \in Seq(Keys) OBVIOUS
    <3>2. PICK k \in Keys : l = <<k>> \/ l = Line(k) BY <1>3 DEF EntryLines, Line
    <3>3. KeyText(l) = <<k>> BY <3>2, KeyTexts
    <3> QED BY <3>1, <3>3
  <2>4. Recorded(s, l) \in UNION {[T -> Seq(CommentLines) \ {<<>>}] : T \in SUBSET Seq(Keys)}
    <3>1. PICK T \in SUBSET Seq(Keys) : s.out \in [T -> Seq(CommentLines) \ {<<>>}] BY DEF ScanStates
    <3>2. s.pending \in Seq(CommentLines) BY DEF ScanStates
    <3>3. CASE s.pending = <<>> BY <3>1, <3>3 DEF Recorded
    <3>4. CASE s.pending # <<>>
      <4>1. T \cup {KeyText(l)} \in SUBSET Seq(Keys) BY <2>3
      <4>2. Recorded(s, l) = [t \in T \cup {KeyText(l)} |-> IF t = KeyText(l) THEN s.pending ELSE s.out[t]]
        BY <3>1, <3>4 DEF Recorded
      <4>3. Recorded(s, l) \in [T \cup {KeyText(l)} -> Seq(CommentLines) \ {<<>>}] BY <3>1, <3>2, <3>4, <4>2
      <4> QED BY <4>1, <4>3
    <3> QED BY <3>3, <3>4
  <2>5. <<>> \in Seq(CommentLines) OBVIOUS
  <2> QED BY <2>2, <2>4, <2>5 DEF ScanStates
<1> QED BY <1>1, <1>2, <1>3 DEF FileLines

\* What a scan makes of each kind of line.
LEMMA BlankScanned ==
  ASSUME NEW h, NEW p, NEW out, NEW l, IsBlank(l)
  PROVE  ScanLine([inHeader |-> h, pending |-> p, out |-> out], l)
           = [inHeader |-> FALSE, pending |-> <<>>, out |-> out]
<1>1. ~IsComment(l) BY DEF IsComment
<1> QED BY <1>1 DEF ScanLine

\* A comment of the header is dropped.
LEMMA HeaderScanned ==
  ASSUME NEW p, NEW out, NEW l, IsComment(l)
  PROVE  ScanLine([inHeader |-> TRUE, pending |-> p, out |-> out], l)
           = [inHeader |-> TRUE, pending |-> p, out |-> out]
<1>1. ~IsBlank(l) BY DEF IsComment
<1> QED BY <1>1 DEF ScanLine

\* A comment below the header is kept.
LEMMA CommentScanned ==
  ASSUME NEW p, NEW out, NEW l, IsComment(l)
  PROVE  ScanLine([inHeader |-> FALSE, pending |-> p, out |-> out], l)
           = [inHeader |-> FALSE, pending |-> Append(p, l), out |-> out]
<1>1. ~IsBlank(l) BY DEF IsComment
<1> QED BY <1>1 DEF ScanLine

\* An entry takes the comments kept, and ends them.
LEMMA EntryScanned ==
  ASSUME NEW s, NEW l, IsEntry(l)
  PROVE  ScanLine(s, l) = [inHeader |-> FALSE, pending |-> <<>>, out |-> Recorded(s, l)]
<1>1. ~IsComment(l) /\ ~IsBlank(l) BY DEF IsEntry
<1> QED BY <1>1 DEF ScanLine

\* A scan of the lines that developers and rewrites leave.
LEMMA Scanned ==
  ASSUME NEW f \in Seq(FileLines)
  PROVE  /\ Scan(f) \in ScanStates
         /\ ReadBaseline(f) \subseteq {<<k>> : k \in Keys}
<1> DEFINE G == {g \in Seq(FileLines) : /\ Scan(g) \in ScanStates
                                        /\ ReadBaseline(g) \subseteq {<<k>> : k \in Keys}}
<1>1. <<>> \in G
  <2>1. BeforeFirst \in ScanStates
    <3>1. <<>> \in [{} -> Seq(CommentLines) \ {<<>>}] /\ <<>> \in Seq(CommentLines) OBVIOUS
    <3>2. {} \in SUBSET Seq(Keys) OBVIOUS
    <3> QED BY <3>1, <3>2 DEF BeforeFirst, ScanStates
  <2>2. ReadBaseline(<<>>) = {} BY DEF ReadBaseline
  <2>3. <<>> \in Seq(FileLines) OBVIOUS
  <2> QED BY <2>1, <2>2, <2>3, ScanEmpty
<1>2. ASSUME NEW g \in Seq(FileLines), NEW l \in FileLines, g \in G PROVE Append(g, l) \in G
  <2>1. Scan(Append(g, l)) \in ScanStates
    <3>1. Scan(g) \in ScanStates BY <1>2
    <3>2. Scan(Append(g, l)) = ScanLine(Scan(g), l) BY ScanStep
    <3> QED BY <3>1, <3>2, LineStates
  <2>2. KeyText(l) \in {<<k>> : k \in Keys} \cup {<<>>}
    BY KeyTexts DEF FileLines, EntryLines, Line
  <2>3. ReadBaseline(Append(g, l)) = ReadBaseline(g) \cup ({KeyText(l)} \ {<<>>}) BY ReadStep
  <2>4. Append(g, l) \in Seq(FileLines) OBVIOUS
  <2> HIDE DEF G
  <2>5. Scan(g) \in ScanStates /\ ReadBaseline(g) \subseteq {<<k>> : k \in Keys} BY <1>2 DEF G
  <2> QED BY <2>1, <2>2, <2>3, <2>4, <2>5 DEF G
<1> HIDE DEF G
<1>3. Seq(FileLines) \subseteq G BY <1>1, <1>2, InductionOnSequences
<1> QED BY <1>3 DEF G

\* What the two readers make of any file is file contents of the gate.
LEMMA ParsedContents ==
  ASSUME NEW f \in Seq(FileLines)
  PROVE  /\ Parsed(f) \in Gate!Contents
         /\ \A k \in Keys : Parsed(f)[k] # Absent <=> <<k>> \in ReadBaseline(f)
<1> DEFINE out == ReasonsIn(f)
<1>1. f # Missing BY MarkersAssumption
<1>2. PICK T \in SUBSET Seq(Keys) : out \in [T -> Seq(CommentLines) \ {<<>>}]
  BY Scanned DEF ScanStates, ReasonsIn
<1> HIDE DEF out
<1> DEFINE read(k) == IF <<k>> \notin ReadBaseline(f) THEN Absent
                      ELSE IF <<k>> \in DOMAIN out THEN out[<<k>>] ELSE <<>>
<1>3. Parsed(f) = [k \in Keys |-> read(k)] BY <1>1 DEF Parsed, out
<1>4. \A k \in Keys : read(k) \in Seq(CommentLines) \cup {Absent}
  <2>1. <<>> \in Seq(CommentLines) OBVIOUS
  <2> QED BY <1>2, <2>1
<1>5. \A k \in Keys : read(k) # Absent <=> <<k>> \in ReadBaseline(f)
  <2>1. <<>> \in Seq(CommentLines) OBVIOUS
  <2> QED BY <1>2, <2>1, MarkersAssumption
<1> HIDE DEF read
<1>6. Gate!Contents = [Keys -> Seq(CommentLines) \cup {Absent}]
  <2>1. <<>> \in Seq(CommentLines) OBVIOUS
  <2> QED BY <2>1 DEF Gate!Contents, Gate!Notes
<1> QED BY <1>3, <1>4, <1>5, <1>6

-----------------------------------------------------------------------------
(* What the readers make of the text that the writer composes *)

NoteOf(c, k) == IF c[k] = Absent THEN <<>> ELSE c[k]
ReasonsOf(c, K) == [t \in {<<k>> : k \in {j \in K : NoteOf(c, j) # <<>>}} |-> NoteOf(c, t[1])]

\* f is read as the entries K with their notes in c, and ends in the comments p.
ReadsAs(f, c, K, p) ==
  /\ ReadBaseline(f) = {<<k>> : k \in K}
  /\ Scan(f) = [inHeader |-> FALSE, pending |-> p, out |-> ReasonsOf(c, K)]

\* The file contents that keep the entries K, and all those that keep some of them.
Keeping(c, K) == [k \in Keys |-> IF k \in K THEN NoteOf(c, k) ELSE Absent]
KeepingSome(c, K) == {Keeping(c, J) : J \in SUBSET K}

\* However many lines of f are kept, they are read as some of the entries K.
CutsAs(f, c, K) == \A n \in 0..Len(f) : Parsed(SubSeq(f, 1, n)) \in KeepingSome(c, K)

\* The note kept of an entry is a sequence of comments.
LEMMA NotesAre ==
  ASSUME NEW c \in Gate!Contents, NEW k \in Keys
  PROVE  NoteOf(c, k) \in Seq(CommentLines) /\ NoteOf(c, k) # Absent
<1>1. <<>> \in Seq(CommentLines) OBVIOUS
<1>2. c[k] \in Seq(CommentLines) \cup {Absent} BY <1>1 DEF Gate!Contents, Gate!Notes
<1> QED BY <1>1, <1>2, MarkersAssumption DEF NoteOf

\* A text read as the entries K with their notes is parsed as just these.
LEMMA ReadContents ==
  ASSUME NEW f \in Seq(FileLines), NEW c \in Gate!Contents, NEW K \in SUBSET Keys, NEW p,
         ReadsAs(f, c, K, p)
  PROVE  Parsed(f) = Keeping(c, K)
<1>1. f # Missing BY MarkersAssumption
<1>2. \A k, j : <<k>> = <<j>> => k = j OBVIOUS
<1>3. \A k \in Keys : <<k>> \in ReadBaseline(f) <=> k \in K BY <1>2 DEF ReadsAs
<1>4. ReasonsIn(f) = ReasonsOf(c, K) BY DEF ReadsAs, ReasonsIn
<1>5. \A k \in K : /\ <<k>> \in DOMAIN ReasonsOf(c, K) <=> NoteOf(c, k) # <<>>
                   /\ NoteOf(c, k) # <<>> => ReasonsOf(c, K)[<<k>>] = NoteOf(c, k)
  BY <1>2 DEF ReasonsOf
<1> QED BY <1>1, <1>3, <1>4, <1>5 DEF Parsed, Keeping

\* A comment line is kept for the entry below it.
LEMMA ReadsComment ==
  ASSUME NEW f \in Seq(FileLines), NEW c, NEW K \in SUBSET Keys, NEW p,
         ReadsAs(f, c, K, p), NEW l \in CommentLines
  PROVE  ReadsAs(Append(f, l), c, K, Append(p, l))
<1>1. IsComment(l) /\ l \in FileLines /\ KeyText(l) = <<>> BY LineKinds, KeyTexts
<1>2. ReadBaseline(Append(f, l)) = ReadBaseline(f)
  <2>1. ReadBaseline(Append(f, l)) = ReadBaseline(f) \cup ({KeyText(l)} \ {<<>>}) BY <1>1, ReadStep
  <2> QED BY <1>1, <2>1
<1>3. Scan(Append(f, l)) = ScanLine(Scan(f), l) BY <1>1, ScanStep
<1>4. Scan(Append(f, l)) = [inHeader |-> FALSE, pending |-> Append(p, l), out |-> ReasonsOf(c, K)]
  BY <1>1, <1>3, CommentScanned DEF ReadsAs
<1> QED BY <1>2, <1>4 DEF ReadsAs

\* An entry takes the comments above it.
LEMMA ReadsEntry ==
  ASSUME NEW f \in Seq(FileLines), NEW c, NEW K \in SUBSET Keys, NEW k \in Keys,
         ReadsAs(f, c, K, NoteOf(c, k))
  PROVE  ReadsAs(Append(f, Line(k)), c, K \cup {k}, <<>>)
<1> DEFINE l == Line(k)
<1>1. IsEntry(l) /\ l \in FileLines /\ KeyText(l) = <<k>> BY LineKinds, KeyTexts DEF IsEntry
<1> HIDE DEF l
<1>2. <<k>> # <<>> /\ \A j, i : <<j>> = <<i>> => j = i OBVIOUS
<1>3. ReadBaseline(Append(f, l)) = {<<j>> : j \in K \cup {k}} BY <1>1, <1>2, ReadStep DEF ReadsAs
<1>4. Scan(Append(f, l)) = [inHeader |-> FALSE, pending |-> <<>>, out |-> Recorded(Scan(f), l)]
  <2>1. Scan(Append(f, l)) = ScanLine(Scan(f), l) BY <1>1, ScanStep
  <2> QED BY <1>1, <2>1, EntryScanned
<1>5. Recorded(Scan(f), l) = ReasonsOf(c, K \cup {k})
  <2>1. Scan(f).pending = NoteOf(c, k) /\ Scan(f).out = ReasonsOf(c, K) BY DEF ReadsAs
  <2> DEFINE T == {<<j>> : j \in {i \in K : NoteOf(c, i) # <<>>}}
             U == {<<j>> : j \in {i \in K \cup {k} : NoteOf(c, i) # <<>>}}
  <2>2. ReasonsOf(c, K) = [t \in T |-> NoteOf(c, t[1])] /\ ReasonsOf(c, K \cup {k}) = [t \in U |-> NoteOf(c, t[1])]
    BY DEF ReasonsOf
  <2>3. CASE NoteOf(c, k) = <<>>
    <3>1. T = U BY <2>3
    <3> QED BY <2>1, <2>2, <2>3, <3>1 DEF Recorded
  <2>4. CASE NoteOf(c, k) # <<>>
    <3>1. U = T \cup {<<k>>} BY <2>4
    <3>2. DOMAIN Scan(f).out = T BY <2>1, <2>2
    <3>3. Recorded(Scan(f), l) = [t \in T \cup {<<k>>} |-> IF t = <<k>> THEN NoteOf(c, k) ELSE ReasonsOf(c, K)[t]]
      BY <1>1, <2>1, <2>4, <3>2 DEF Recorded
    <3>4. <<k>>[1] = k OBVIOUS
    <3> HIDE DEF T, U
    <3> QED BY <2>2, <3>1, <3>3, <3>4
  <2> QED BY <2>3, <2>4
<1> QED BY <1>3, <1>4, <1>5 DEF ReadsAs, l

\* A text of one line more is cut as the text was, or not at all.
LEMMA CutsStep ==
  ASSUME NEW f \in Seq(FileLines), NEW l \in FileLines, NEW c, NEW K, NEW K2, K \subseteq K2,
         CutsAs(f, c, K), Parsed(Append(f, l)) \in KeepingSome(c, K2)
  PROVE  CutsAs(Append(f, l), c, K2)
<1> DEFINE g == Append(f, l)
<1>1. g \in Seq(FileLines) /\ Len(g) = Len(f) + 1 /\ \A i \in 1..Len(f) : g[i] = f[i] BY AppendIs
<1>2. Len(f) \in Nat OBVIOUS
<1> HIDE DEF g
<1>3. KeepingSome(c, K) \subseteq KeepingSome(c, K2) BY DEF KeepingSome
<1>4. ASSUME NEW n \in 0..Len(g) PROVE Parsed(SubSeq(g, 1, n)) \in KeepingSome(c, K2)
  <2>1. CASE n = Len(g)
    <3>1. SubSeq(g, 1, n) = g BY <1>1, <2>1, SubSeqFull
    <3> QED BY <3>1 DEF g
  <2>2. CASE n # Len(g)
    <3>1. n \in 0..Len(f) BY <1>1, <1>2, <2>2
    <3>2. SubSeq(g, 1, n) = SubSeq(f, 1, n)
      <4>1. n \in Int /\ 1 \in Int /\ \A i \in 1..n : g[i] = f[i] /\ f[i] \in FileLines /\ g[i] \in FileLines
        BY <1>1, <1>2, <3>1
      <4>2. /\ SubSeq(g, 1, n) \in Seq(FileLines) /\ SubSeq(f, 1, n) \in Seq(FileLines)
            /\ Len(SubSeq(g, 1, n)) = Len(SubSeq(f, 1, n))
            /\ Len(SubSeq(g, 1, n)) = IF 1 <= n THEN n - 1 + 1 ELSE 0
            /\ \A i \in 1..n - 1 + 1 : SubSeq(g, 1, n)[i] = g[1 + i - 1] /\ SubSeq(f, 1, n)[i] = f[1 + i - 1]
        BY <4>1, SubSeqProperties
      <4>3. \A i \in 1..Len(SubSeq(g, 1, n)) : SubSeq(g, 1, n)[i] = SubSeq(f, 1, n)[i]
        BY <3>1, <4>1, <4>2
      <4> QED BY <4>2, <4>3, SeqEqual
    <3> QED BY <1>3, <3>1, <3>2 DEF CutsAs
  <2> QED BY <2>1, <2>2
<1> QED BY <1>4 DEF CutsAs, g

\* A text that is read as K, with nothing pending, and may be cut anywhere.
Sound(f, c, K, p) == f \in Seq(FileLines) /\ ReadsAs(f, c, K, p) /\ CutsAs(f, c, K)

\* A line more that is read keeps the text sound.
LEMMA SoundStep ==
  ASSUME NEW c \in Gate!Contents, NEW K \in SUBSET Keys, NEW K2 \in SUBSET Keys, K \subseteq K2,
         NEW f, NEW p, Sound(f, c, K, p), NEW l \in FileLines, NEW p2,
         ReadsAs(Append(f, l), c, K2, p2)
  PROVE  Sound(Append(f, l), c, K2, p2)
<1>1. f \in Seq(FileLines) /\ CutsAs(f, c, K) BY DEF Sound
<1>2. Append(f, l) \in Seq(FileLines) BY <1>1, AppendIs
<1>3. Parsed(Append(f, l)) = Keeping(c, K2) BY <1>2, ReadContents
<1>4. Keeping(c, K2) \in KeepingSome(c, K2) BY DEF KeepingSome
<1>5. CutsAs(Append(f, l), c, K2) BY <1>1, <1>3, <1>4, CutsStep
<1> QED BY <1>2, <1>5 DEF Sound

\* The comments of an entry are pending until the entry is read.
LEMMA SoundComments ==
  ASSUME NEW c \in Gate!Contents, NEW K \in SUBSET Keys, NEW f, Sound(f, c, K, <<>>),
         NEW note \in Seq(CommentLines)
  PROVE  Sound(f \o note, c, K, note)
<1> DEFINE G == {q \in Seq(CommentLines) : Sound(f \o q, c, K, q)}
<1>1. <<>> \in G
  <2>1. f \o <<>> = f BY ConcatEmptySeq DEF Sound
  <2>2. <<>> \in Seq(CommentLines) OBVIOUS
  <2> QED BY <2>1, <2>2
<1>2. ASSUME NEW q \in Seq(CommentLines), NEW l \in CommentLines, q \in G PROVE Append(q, l) \in G
  <2>1. q \in Seq(FileLines) /\ l \in FileLines
    <3>1. CommentLines \subseteq FileLines BY DEF FileLines
    <3> QED BY <3>1
  <2>2. f \o Append(q, l) = Append(f \o q, l) BY <2>1, ConcatAppends DEF Sound
  <2>3. Sound(f \o q, c, K, q) BY <1>2
  <2>4. ReadsAs(Append(f \o q, l), c, K, Append(q, l)) BY <2>3, ReadsComment DEF Sound
  <2>5. Sound(Append(f \o q, l), c, K, Append(q, l)) BY <2>1, <2>3, <2>4, SoundStep
  <2>6. Append(q, l) \in Seq(CommentLines) OBVIOUS
  <2> QED BY <2>2, <2>5, <2>6
<1> HIDE DEF G
<1>3. Seq(CommentLines) \subseteq G BY <1>1, <1>2, InductionOnSequences
<1> QED BY <1>3 DEF G

\* An entry composed below a sound text.
LEMMA SoundBlock ==
  ASSUME NEW c \in Gate!Contents, NEW K \in SUBSET Keys, NEW f, Sound(f, c, K, <<>>), NEW k \in Keys
  PROVE  /\ Sound(f \o EntryBlock(k, NoteOf(c, k)), c, K \cup {k}, <<>>)
         /\ EntryBlock(k, NoteOf(c, k)) \in Seq(FileLines)
<1> DEFINE note == NoteOf(c, k)
<1>1. note \in Seq(CommentLines) BY NotesAre
<1>2. CommentLines \subseteq FileLines /\ Line(k) \in FileLines BY LineKinds DEF FileLines
<1>3. note \in Seq(FileLines) /\ f \in Seq(FileLines) BY <1>1, <1>2 DEF Sound
<1> HIDE DEF note
<1>4. Sound(f \o note, c, K, note) BY <1>1, SoundComments
<1>5. ReadsAs(Append(f \o note, Line(k)), c, K \cup {k}, <<>>) BY <1>4, ReadsEntry DEF Sound, note
<1>6. Sound(Append(f \o note, Line(k)), c, K \cup {k}, <<>>) BY <1>2, <1>4, <1>5, SoundStep
<1>7. EntryBlock(k, note) = Append(note, Line(k)) BY <1>2, <1>3, AppendIs DEF EntryBlock, Line
<1>8. f \o Append(note, Line(k)) = Append(f \o note, Line(k)) BY <1>2, <1>3, ConcatAppends
<1>9. Append(note, Line(k)) \in Seq(FileLines) BY <1>2, <1>3, AppendIs
<1> QED BY <1>6, <1>7, <1>8, <1>9 DEF note

\* A text without a key is parsed as the file contents without an entry.
LEMMA NoEntries ==
  ASSUME NEW f \in Seq(FileLines), NEW c, ReadBaseline(f) = {}
  PROVE  Parsed(f) = Keeping(c, {}) /\ Parsed(f) \in KeepingSome(c, {})
<1>1. f # Missing BY MarkersAssumption
<1>2. Parsed(f) = [k \in Keys |-> Absent] BY <1>1 DEF Parsed
<1>3. Keeping(c, {}) = [k \in Keys |-> Absent] BY DEF Keeping
<1>4. Keeping(c, {}) \in KeepingSome(c, {}) BY DEF KeepingSome
<1> QED BY <1>2, <1>3, <1>4

\* The header and the blank line below it are read as no entry and no comment.
Top == Header \o << <<>> >>

\* The text before the first entry is sound.
LEMMA SoundTop ==
  ASSUME NEW c
  PROVE  Sound(Top, c, {}, <<>>)
<1> DEFINE h == <<Hash, Generated>>
           one == Append(<<>>, h)
<1>1. h \in CommentLines /\ h \in FileLines BY DEF CommentLines, FileLines
<1>2. <<>> \in Seq(FileLines) /\ <<>> \in FileLines BY DEF FileLines
<1>3. one \in Seq(FileLines) BY <1>1, <1>2, AppendIs
<1>4. Top = Append(one, <<>>) /\ Append(one, <<>>) \in Seq(FileLines)
  <2>1. one = Header BY DEF Header
  <2>2. Append(one, <<>>) = one \o << <<>> >> BY <1>2, <1>3, AppendIs
  <2> QED BY <1>2, <1>3, <2>1, <2>2, AppendIs DEF Top
<1> HIDE DEF one, h
<1>5. ReadBaseline(<<>>) = {} BY DEF ReadBaseline
<1>r. ASSUME NEW f \in Seq(FileLines), NEW l \in FileLines, ReadBaseline(f) = {}, KeyText(l) = <<>>
      PROVE  ReadBaseline(Append(f, l)) = {}
  BY <1>r, ReadStep
<1>6. ReadBaseline(one) = {}
  <2>1. KeyText(h) = <<>> BY <1>1, KeyTexts
  <2> QED BY <1>1, <1>2, <1>5, <1>r, <2>1 DEF one
<1>7. ReadBaseline(Top) = {} BY <1>2, <1>3, <1>4, <1>6, <1>r, KeyTexts
<1>8. Scan(one) = BeforeFirst
  <2>1. Scan(one) = ScanLine(BeforeFirst, h) BY <1>1, <1>2, ScanStep, ScanEmpty DEF one
  <2>2. IsComment(h) /\ ~IsBlank(h) BY <1>1, LineKinds
  <2>3. ScanLine(BeforeFirst, h) = BeforeFirst BY <2>2 DEF ScanLine, BeforeFirst
  <2> QED BY <2>1, <2>3
<1>9. Scan(Top) = [inHeader |-> FALSE, pending |-> <<>>, out |-> <<>>]
  <2>1. Scan(Top) = ScanLine(BeforeFirst, <<>>) BY <1>2, <1>3, <1>4, <1>8, ScanStep
  <2>2. IsBlank(<<>>) /\ ~IsComment(<<>>) BY LineKinds DEF IsComment
  <2>3. ScanLine(BeforeFirst, <<>>) = [inHeader |-> FALSE, pending |-> <<>>, out |-> <<>>]
    BY <2>2 DEF ScanLine, BeforeFirst
  <2> QED BY <2>1, <2>3
<1>10. ReasonsOf(c, {}) = <<>> BY DEF ReasonsOf
<1>11. ReadsAs(Top, c, {}, <<>>) BY <1>7, <1>9, <1>10 DEF ReadsAs
<1>c. ASSUME NEW K, NEW f \in Seq(FileLines), NEW l \in FileLines, CutsAs(f, c, K),
             Parsed(Append(f, l)) \in KeepingSome(c, K)
      PROVE  CutsAs(Append(f, l), c, K)
  <2>1. K \subseteq K OBVIOUS
  <2> QED BY <1>c, <2>1, CutsStep
<1>12. CutsAs(<<>>, c, {})
  <2>1. ASSUME NEW n \in 0..Len(<<>>) PROVE SubSeq(<<>>, 1, n) = <<>>
    <3>1. n = 0 OBVIOUS
    <3> QED BY <3>1, SubSeqEmpty
  <2>2. Parsed(<<>>) \in KeepingSome(c, {}) BY <1>2, <1>5, NoEntries
  <2> QED BY <2>1, <2>2 DEF CutsAs
<1>13. CutsAs(one, c, {})
  <2>1. Parsed(one) \in KeepingSome(c, {}) BY <1>3, <1>6, NoEntries
  <2> QED BY <1>1, <1>2, <1>12, <1>c, <2>1 DEF one
<1>14. CutsAs(Top, c, {})
  <2>1. Parsed(Top) \in KeepingSome(c, {}) BY <1>4, <1>7, NoEntries
  <2> QED BY <1>2, <1>3, <1>4, <1>13, <1>c, <2>1
<1> QED BY <1>4, <1>11, <1>14 DEF Sound

\* The text composed for a sequence of keys.
BlockOf(c) == [k \in Keys |-> EntryBlock(k, NoteOf(c, k))]
Blocks(c, ks) == Mapped(BlockOf(c), ks)
TextOf(c, ks) == Top \o FlattenSeq(Blocks(c, ks))

\* The text composed for a sequence of keys is sound, wherever it is cut.
LEMMA SoundText ==
  ASSUME NEW c \in Gate!Contents, NEW ks \in Seq(Keys)
  PROVE  Sound(TextOf(c, ks), c, ToSet(ks), <<>>)
<1> DEFINE Whole(r) == /\ Blocks(c, r) \in Seq(Seq(FileLines))
                       /\ FlattenSeq(Blocks(c, r)) \in Seq(FileLines)
                       /\ Sound(TextOf(c, r), c, ToSet(r), <<>>)
           G == {r \in Seq(Keys) : Whole(r)}
<1>0. Top \in Seq(FileLines) BY SoundTop DEF Sound
<1>1. <<>> \in G
  <2>1. Blocks(c, <<>>) = <<>> BY DEF Blocks, Mapped
  <2>2. FlattenSeq(<<>>) = <<>> BY DEF FlattenSeq
  <2>3. Top \o <<>> = Top BY <1>0, ConcatEmptySeq
  <2>4. ToSet(<<>>) = {} BY DEF ToSet
  <2>5. <<>> \in Seq(Seq(FileLines)) /\ <<>> \in Seq(FileLines) /\ <<>> \in Seq(Keys) OBVIOUS
  <2>6. TextOf(c, <<>>) = Top BY <2>1, <2>2, <2>3 DEF TextOf
  <2> QED BY <2>1, <2>2, <2>4, <2>5, <2>6, SoundTop
<1>2. ASSUME NEW r \in Seq(Keys), NEW k \in Keys, r \in G PROVE Append(r, k) \in G
  <2> DEFINE block == EntryBlock(k, NoteOf(c, k))
  <2>1. Whole(r) BY <1>2
  <2> HIDE DEF Whole, G
  <2>a. Append(r, k) \in Seq(Keys) BY AppendIs
  <2>2. ToSet(r) \in SUBSET Keys BY DEF ToSet
  <2>3. ToSet(Append(r, k)) = ToSet(r) \cup {k}
    <3>1. DOMAIN Append(r, k) = DOMAIN r \cup {Len(r) + 1} OBVIOUS
    <3>2. (\A i \in DOMAIN r : Append(r, k)[i] = r[i]) /\ Append(r, k)[Len(r) + 1] = k OBVIOUS
    <3> QED BY <3>1, <3>2 DEF ToSet
  <2>4. /\ Sound(TextOf(c, r) \o block, c, ToSet(r) \cup {k}, <<>>)
        /\ block \in Seq(FileLines)
    BY <2>1, <2>2, SoundBlock DEF Whole
  <2>5. Blocks(c, Append(r, k)) = Append(Blocks(c, r), block)
    <3>1. BlockOf(c)[k] = block BY DEF BlockOf
    <3> QED BY <3>1, MappedStep DEF Blocks
  <2> DEFINE bs == Blocks(c, r)
             flat == FlattenSeq(bs)
  <2>b. bs \in Seq(Seq(FileLines)) /\ flat \in Seq(FileLines) BY <2>1 DEF Whole
  <2>6. /\ FlattenSeq(Blocks(c, Append(r, k))) = flat \o block
        /\ FlattenSeq(Blocks(c, Append(r, k))) \in Seq(FileLines)
        /\ Blocks(c, Append(r, k)) \in Seq(Seq(FileLines))
    <3> HIDE DEF block, bs
    <3>1. Append(bs, block) \in Seq(Seq(FileLines)) BY <2>4, <2>b, AppendIs
    <3>2. /\ FlattenSeq(Append(bs, block)) = FlattenSeq(bs) \o block
          /\ FlattenSeq(Append(bs, block)) \in Seq(FileLines)
      BY <2>4, <2>b, FlattenStep
    <3> QED BY <2>5, <3>1, <3>2 DEF bs
  <2>7. TextOf(c, Append(r, k)) = TextOf(c, r) \o block
    <3> HIDE DEF block, flat
    <3>1. Top \in Seq(FileLines) /\ flat \in Seq(FileLines) /\ block \in Seq(FileLines)
      BY <1>0, <2>4, <2>b
    <3>2. Top \o (flat \o block) = (Top \o flat) \o block BY <3>1, SMTT(60)
    <3> QED BY <2>6, <3>2 DEF TextOf, flat
  <2> QED BY <2>a, <2>3, <2>4, <2>6, <2>7 DEF G, Whole
<1> HIDE DEF G, Whole
<1>3. Seq(Keys) \subseteq G BY <1>1, <1>2, InductionOnSequences
<1> QED BY <1>3 DEF G, Whole

\* The sorted keys are the keys of the declarations, repeated or not.
LEMMA SortedKeysAre ==
  ASSUME NEW F \in SUBSET Decls
  PROVE  SortedKeys(F) \in Seq(Keys) /\ ToSet(SortedKeys(F)) = Gate!KeysOf(F)
<1> DEFINE of(i) == {d \in F : KeyOf[d] = KeyOrder[i]}
           part(i) == [j \in 1..Cardinality(of(i)) |-> KeyOrder[i]]
           parts == [i \in DOMAIN KeyOrder |-> part(i)]
<1>1. KeyOrder \in Seq(Keys) /\ \A i \in DOMAIN KeyOrder : KeyOrder[i] \in Keys BY KeyOrderAssumption
<1>2. ASSUME NEW i \in DOMAIN KeyOrder
      PROVE  part(i) \in Seq(Keys) /\ ToSet(part(i)) = {k \in {KeyOrder[i]} : of(i) # {}}
  <2>1. IsFiniteSet(of(i)) BY TokensAssumption, FS_Subset
  <2>2. Cardinality(of(i)) \in Nat /\ (Cardinality(of(i)) = 0 <=> of(i) = {})
    BY <2>1, FS_CardinalityType, FS_EmptySet
  <2> DEFINE n == Cardinality(of(i))
  <2>3. n \in Nat /\ (n = 0 <=> of(i) = {}) BY <2>2
  <2> HIDE DEF n, of
  <2>4. part(i) = [j \in 1..n |-> KeyOrder[i]] BY DEF n
  <2>5. part(i) \in Seq(Keys)
    <3>1. \A x \in Keys : [j \in 1..n |-> x] \in Seq(Keys) BY <2>3
    <3> HIDE DEF part
    <3> QED BY <1>1, <2>4, <3>1
  <2>6. ToSet(part(i)) = {KeyOrder[i] : j \in 1..n} BY <2>4 DEF ToSet
  <2>7. 1..n = {} <=> n = 0 BY <2>3
  <2> QED BY <2>3, <2>5, <2>6, <2>7
<1>3. parts \in Seq(Seq(Keys))
  <2>1. DOMAIN KeyOrder = 1..Len(KeyOrder) /\ Len(KeyOrder) \in Nat BY <1>1
  <2> HIDE DEF part
  <2> QED BY <1>2, <2>1
<1>4. SortedKeys(F) = FlattenSeq(parts) BY DEF SortedKeys
<1>5. FlattenSeq(parts) \in Seq(Keys) /\ ToSet(FlattenSeq(parts)) = Elements(parts)
  BY <1>3, FlattenElements
<1>6. Elements(parts) = UNION {{k \in {KeyOrder[i]} : of(i) # {}} : i \in DOMAIN KeyOrder}
  <2> HIDE DEF part, of
  <2> QED BY <1>2 DEF Elements
<1>7. Keys = {KeyOrder[i] : i \in DOMAIN KeyOrder} BY DEF Keys, ToSet
<1>8. \A d \in F : KeyOf[d] \in Keys BY KeyOrderAssumption
<1>9. Elements(parts) = {KeyOf[d] : d \in F} BY <1>6, <1>7, <1>8
<1> QED BY <1>4, <1>5, <1>9 DEF Gate!KeysOf

\* A composed text is sound: read whole it is the rewritten file of the gate, and
\* however it is cut, it is read as one of the gate's torn files.
THEOREM RoundTrip ==
  ASSUME NEW F \in SUBSET Decls, NEW c \in Gate!Contents
  PROVE  /\ Compose(F, c) \in Seq(FileLines)
         /\ Parsed(Compose(F, c)) = Gate!Rewritten(F, c)
         /\ \A n \in 0..Len(Compose(F, c)) : Parsed(SubSeq(Compose(F, c), 1, n)) \in Gate!Torn(F, c)
<1> DEFINE text == Compose(F, c)
           K == Gate!KeysOf(F)
<1>1. SortedKeys(F) \in Seq(Keys) /\ ToSet(SortedKeys(F)) = K BY SortedKeysAre
<1>2. text = TextOf(c, SortedKeys(F))
  <2> DEFINE keys == SortedKeys(F)
  <2>1. \A i \in DOMAIN keys : keys[i] \in Keys BY <1>1
  <2>2. Blocks(c, keys) = [i \in DOMAIN keys |-> EntryBlock(keys[i], NoteOf(c, keys[i]))]
    BY <2>1 DEF Blocks, BlockOf, Mapped
  <2> QED BY <2>2 DEF Compose, TextOf, Top, NoteOf
<1>3. Sound(text, c, K, <<>>) BY <1>1, <1>2, SoundText
<1>4. K \in SUBSET Keys BY KeyOrderAssumption DEF Gate!KeysOf
<1> HIDE DEF text
<1>5. text \in Seq(FileLines) /\ Parsed(text) = Keeping(c, K) BY <1>3, <1>4, ReadContents DEF Sound
<1>6. Gate!Rewritten(F, c) = Keeping(c, K) BY DEF Gate!Rewritten, Keeping, NoteOf
<1>7. Gate!Torn(F, c) = KeepingSome(c, K)
  <2>1. \A J \in SUBSET K : [k \in Keys |-> IF k \in J THEN Gate!Rewritten(F, c)[k] ELSE Absent] = Keeping(c, J)
    BY <1>4, <1>6 DEF Keeping
  <2> QED BY <2>1 DEF Gate!Torn, KeepingSome
<1> QED BY <1>3, <1>5, <1>6, <1>7 DEF text, Sound, CutsAs

-----------------------------------------------------------------------------
(* The invariant: the gate's file is what the lines are read as *)

Inv == /\ TypeOK
       /\ file = Parsed(lines)
       /\ \A p \in Procs : /\ pc[p] \in {"read", "truncated"} => view[p] \in Gate!Contents
                           /\ pc[p] # "idle" => code[p] = Gate!NoCode

\* A file of lines is parsed as file contents, and a missing file as missing.
LEMMA ParsedFile ==
  ASSUME NEW f \in Seq(FileLines) \cup {Missing}
  PROVE  /\ Parsed(f) \in Gate!Contents \cup {Missing}
         /\ Parsed(f) = Missing <=> f = Missing
         /\ f # Missing => Parsed(f) \in Gate!Contents
<1>1. CASE f = Missing BY <1>1 DEF Parsed
<1>2. CASE f # Missing BY <1>2, ParsedContents, MarkersAssumption
<1> QED BY <1>1, <1>2

\* A truncated file is parsed as the file contents without an entry.
LEMMA EmptyFile ==
  Parsed(<<>>) = Gate!Empty /\ Gate!Empty \in Gate!Contents /\ <<>> \in Seq(FileLines)
<1>1. <<>> \in Seq(FileLines) OBVIOUS
<1>2. ReadBaseline(<<>>) = {} BY DEF ReadBaseline
<1>3. Parsed(<<>>) = Keeping(<<>>, {}) BY <1>1, <1>2, NoEntries
<1>4. Keeping(<<>>, {}) = Gate!Empty BY DEF Keeping, Gate!Empty
<1> QED BY <1>1, <1>3, <1>4, ParsedContents

\* The lines a developer leaves are lines of a file.
LEMMA EditedLines ==
  /\ DeveloperLines \subseteq FileLines
  /\ \A f \in Seq(FileLines) : \A l \in FileLines, i \in 1..Len(f) + 1 : InsertAt(f, i, l) \in Seq(FileLines)
  /\ \A f \in Seq(FileLines) : \A i \in DOMAIN f : RemoveAt(f, i) \in Seq(FileLines)
<1>1. DeveloperLines \subseteq FileLines BY DEF DeveloperLines, FileLines, CommentLines, EntryLines
<1>2. ASSUME NEW f \in Seq(FileLines), NEW m \in Int, NEW n \in Int, 1 <= m, n <= Len(f)
      PROVE  SubSeq(f, m, n) \in Seq(FileLines)
  <2>1. \A i \in m..n : f[i] \in FileLines BY <1>2
  <2> QED BY <2>1, SubSeqProperties
<1>3. ASSUME NEW f \in Seq(FileLines), NEW l \in FileLines, NEW i \in 1..Len(f) + 1
      PROVE  InsertAt(f, i, l) \in Seq(FileLines)
  <2>1. Len(f) \in Nat OBVIOUS
  <2>2. SubSeq(f, 1, i - 1) \in Seq(FileLines) BY <1>2, <2>1
  <2>3. SubSeq(f, i, Len(f)) \in Seq(FileLines) BY <1>2, <2>1
  <2>4. <<l>> \in Seq(FileLines) OBVIOUS
  <2> QED BY <2>2, <2>3, <2>4, ConcatProperties DEF InsertAt
<1>4. ASSUME NEW f \in Seq(FileLines), NEW i \in DOMAIN f
      PROVE  RemoveAt(f, i) \in Seq(FileLines)
  <2>1. Len(f) \in Nat /\ i \in 1..Len(f) OBVIOUS
  <2>2. SubSeq(f, 1, i - 1) \in Seq(FileLines) BY <1>2, <2>1
  <2>3. SubSeq(f, i + 1, Len(f)) \in Seq(FileLines) BY <1>2, <2>1
  <2> QED BY <2>2, <2>3, ConcatProperties DEF RemoveAt
<1> QED BY <1>1, <1>3, <1>4

\* The invariant holds at first, and the gate starts where the lines do.
LEMMA InvInit == Init => Inv /\ Gate!Init
<1> SUFFICES ASSUME Init PROVE Inv /\ Gate!Init OBVIOUS
<1>1. lines \in Seq(FileLines) \cup {Missing}
  <2>1. \A m \in 0..MaxLines : \A f \in [1..m -> DeveloperLines] : f \in Seq(FileLines)
    BY EditedLines, BoundsAssumption
  <2> QED BY <2>1 DEF Init, BoundedSeq, SeqOf
<1>2. file = Parsed(lines) /\ file \in Gate!Contents \cup {Missing} BY <1>1, ParsedFile DEF Init
<1>3. Gate!Init BY <1>2 DEF Init, Gate!Init
<1>4. Gate!Text(file) \in Gate!Contents BY <1>2, EmptyFile DEF Gate!Text
<1>5. Gate!TypeOK
  BY <1>2, <1>4 DEF Init, Gate!TypeOK, Gate!Modes, Gate!Phases, Gate!Codes
<1>6. TypeOK BY <1>1, <1>5, BoundsAssumption DEF Init, TypeOK
<1> QED BY <1>2, <1>3, <1>6 DEF Init, Inv

-----------------------------------------------------------------------------
(* Each step of the lines is a step of the gate *)

\* The two verdicts of a check agree, and each is an exit code.
LEMMA SameVerdict ==
  ASSUME Inv, NEW F \in SUBSET Decls
  PROVE  (IF lines = Missing THEN 2
          ELSE IF \E d \in F : <<KeyOf[d]>> \notin ReadBaseline(lines) THEN 1 ELSE 0)
         = Gate!Verdict(F, file)
<1>1. file = Parsed(lines) /\ lines \in Seq(FileLines) \cup {Missing} BY DEF Inv, TypeOK
<1>2. CASE lines = Missing BY <1>1, <1>2, ParsedFile DEF Gate!Verdict
<1>3. CASE lines # Missing
  <2>1. file # Missing BY <1>1, <1>3, ParsedFile
  <2>2. \A d \in F : <<KeyOf[d]>> \notin ReadBaseline(lines) <=> KeyOf[d] \notin Gate!Entries(file)
    BY <1>1, <1>3, ParsedContents, KeyOrderAssumption DEF Gate!Entries
  <2> QED BY <1>3, <2>1, <2>2 DEF Gate!Verdict, Gate!Added
<1> QED BY <1>2, <1>3

\* The step of each action is the step of the gate's action of its name, or an edit.
LEMMA GateStep == Inv /\ [Next]_vars => [Gate!Next]_(Gate!vars)
<1> SUFFICES ASSUME Inv, [Next]_vars PROVE [Gate!Next]_(Gate!vars) OBVIOUS
<1>0. /\ file = Parsed(lines) /\ lines \in Seq(FileLines) \cup {Missing}
      /\ \A p \in Procs : found[p] \in SUBSET Decls
      /\ \A p \in Procs : pc[p] \in {"read", "truncated"} => view[p] \in Gate!Contents
  BY DEF Inv, TypeOK, Gate!TypeOK
<1>1. ASSUME NEW p \in Procs, NEW m \in Gate!Modes, Start(p, m) PROVE Gate!Next
  BY <1>1 DEF Start, Gate!Next
<1>2. ASSUME NEW p \in Procs, Elsewhere(p) PROVE Gate!Next
  BY <1>2 DEF Elsewhere, Gate!Next, Gate!Step
<1>3. ASSUME NEW p \in Procs, Check(p) PROVE Gate!Next
  <2>1. Gate!Check(p) BY <1>0, <1>3, SameVerdict DEF Check, Gate!Check, Gate!history
  <2> QED BY <2>1 DEF Gate!Next, Gate!Step
<1>4. ASSUME NEW p \in Procs, ReadReasons(p) PROVE Gate!Next
  <2>1. Gate!ReadReasons(p) BY <1>4 DEF ReadReasons, Gate!ReadReasons, Gate!history
  <2> QED BY <2>1 DEF Gate!Next, Gate!Step
<1>5. ASSUME NEW p \in Procs, Truncate(p) PROVE Gate!Next
  <2>1. Gate!Truncate(p) BY <1>5, EmptyFile DEF Truncate, Gate!Truncate, Gate!history
  <2> QED BY <2>1 DEF Gate!Next, Gate!Step
<1>6. ASSUME NEW p \in Procs, WriteBody(p) PROVE Gate!Next
  <2>1. file' = Gate!Rewritten(found[p], view[p]) BY <1>0, <1>6, RoundTrip DEF WriteBody
  <2>2. Gate!WriteBody(p) BY <1>6, <2>1 DEF WriteBody, Gate!WriteBody
  <2> QED BY <2>2 DEF Gate!Next, Gate!Step
<1>7. ASSUME NEW p \in Procs, NEW c, StopShort(p, c) PROVE Gate!StopShort(p, c)
  <2>1. file' \in Gate!Torn(found[p], view[p]) BY <1>0, <1>7, RoundTrip DEF StopShort
  <2> QED BY <1>7, <2>1 DEF StopShort, Gate!StopShort, Gate!Forget
<1>7a. ASSUME NEW p \in Procs, WriteFails(p) PROVE Gate!Next
  <2>1. Gate!WriteFails(p) BY <1>7, <1>7a DEF WriteFails, Gate!WriteFails
  <2> QED BY <2>1 DEF Gate!Next, Gate!Step
<1>7b. ASSUME NEW p \in Procs, Killed(p) PROVE Gate!Next
  <2>1. Gate!Killed(p) BY <1>7, <1>7b DEF Killed, Gate!Killed
  <2> QED BY <2>1 DEF Gate!Next
<1>8. ASSUME EditLines PROVE Gate!Next
  <2> DEFINE now == IF lines = Missing THEN <<>> ELSE lines
  <2>1. now \in Seq(FileLines) BY <1>0, EmptyFile
  <2>2. ASSUME lines' \in Seq(FileLines), Gate!EditFile(Parsed(lines')) PROVE Gate!Next
    <3>1. file' = Parsed(lines') BY <2>2 DEF Gate!EditFile
    <3>2. file' \in Gate!Contents BY <2>2, <3>1, ParsedContents
    <3> QED BY <2>2, <3>1, <3>2 DEF Gate!Next, Gate!Developer
  <2>3. ASSUME NEW i \in 1..Len(now) + 1, NEW l \in DeveloperLines, lines' = InsertAt(now, i, l)
        PROVE  lines' \in Seq(FileLines)
    BY <2>1, <2>3, EditedLines
  <2>4. ASSUME NEW i \in DOMAIN now, lines' = RemoveAt(now, i) PROVE lines' \in Seq(FileLines)
    BY <2>1, <2>4, EditedLines
  <2>5. Gate!DeleteFile => Gate!Next BY DEF Gate!Next, Gate!Developer
  <2> QED BY <1>8, <2>2, <2>3, <2>4, <2>5 DEF EditLines
<1>9. ASSUME EditTree PROVE Gate!Next
  BY <1>9 DEF EditTree, Gate!Next, Gate!Developer
<1>10. CASE UNCHANGED vars
  BY <1>10 DEF vars, Gate!vars, Gate!runVars, Gate!history
<1> QED BY <1>1, <1>2, <1>3, <1>4, <1>5, <1>6, <1>7a, <1>7b, <1>8, <1>9, <1>10 DEF Next, Step

\* The gate's file stays what the lines are read as.
LEMMA FileStep == Inv /\ [Next]_vars =>
  /\ file' = Parsed(lines') /\ lines' \in Seq(FileLines) \cup {Missing}
  /\ edits' \in 0..MaxEdits /\ runs' \in 0..MaxRuns
<1> DEFINE Ok == /\ file' = Parsed(lines') /\ lines' \in Seq(FileLines) \cup {Missing}
                 /\ edits' \in 0..MaxEdits /\ runs' \in 0..MaxRuns
<1> SUFFICES ASSUME Inv, [Next]_vars PROVE Ok OBVIOUS
<1>0. /\ file = Parsed(lines) /\ lines \in Seq(FileLines) \cup {Missing}
      /\ edits \in 0..MaxEdits /\ runs \in 0..MaxRuns
      /\ \A p \in Procs : found[p] \in SUBSET Decls
      /\ \A p \in Procs : pc[p] \in {"read", "truncated"} => view[p] \in Gate!Contents
  BY DEF Inv, TypeOK, Gate!TypeOK
<1>1. ASSUME NEW p \in Procs, NEW m \in Gate!Modes, Start(p, m) PROVE Ok
  BY <1>0, <1>1, BoundsAssumption DEF Start, Gate!Start
<1>2. ASSUME UNCHANGED <<lines, file, edits, runs>> PROVE Ok BY <1>0, <1>2
<1>3. ASSUME NEW p \in Procs, Elsewhere(p) PROVE UNCHANGED <<lines, file, edits, runs>>
  BY <1>3 DEF Elsewhere, Gate!Scan, Gate!ScanFails, Gate!List, Gate!IOFails
<1>4. ASSUME NEW p \in Procs, Check(p) \/ ReadReasons(p) PROVE UNCHANGED <<lines, file, edits, runs>>
  BY <1>4 DEF Check, ReadReasons
<1>5. ASSUME NEW p \in Procs, Truncate(p) PROVE Ok
  BY <1>0, <1>5, EmptyFile DEF Truncate
<1>6. ASSUME NEW p \in Procs, WriteBody(p) PROVE Ok
  BY <1>0, <1>6, RoundTrip DEF WriteBody
<1>7. ASSUME NEW p \in Procs, NEW c, StopShort(p, c) PROVE Ok
  <2> DEFINE text == Compose(found[p], view[p])
  <2>1. text \in Seq(FileLines) BY <1>0, <1>7, RoundTrip DEF StopShort
  <2>2. PICK n \in 0..Len(text) : lines' = SubSeq(text, 1, n) BY <1>7 DEF StopShort
  <2> HIDE DEF text
  <2>3. n \in Int /\ \A i \in 1..n : text[i] \in FileLines BY <2>1
  <2>4. lines' \in Seq(FileLines) BY <2>2, <2>3, SubSeqProperties
  <2> QED BY <1>0, <1>7, <2>4 DEF StopShort
<1>7a. ASSUME NEW p \in Procs, WriteFails(p) \/ Killed(p) PROVE Ok
  <2>1. CASE UNCHANGED <<lines, edits, runs>> /\ Gate!KilledBefore(p)
    BY <1>2, <2>1 DEF Gate!KilledBefore
  <2> QED BY <1>7, <1>7a, <2>1 DEF WriteFails, Killed
<1>8. ASSUME EditLines PROVE Ok
  <2> DEFINE now == IF lines = Missing THEN <<>> ELSE lines
  <2>1. now \in Seq(FileLines) BY <1>0, EmptyFile
  <2>2. edits' \in 0..MaxEdits /\ runs' \in 0..MaxRuns BY <1>0, <1>8, BoundsAssumption DEF EditLines
  <2>3. Gate!EditFile(Parsed(lines')) => file' = Parsed(lines') BY DEF Gate!EditFile
  <2>4. lines' = Missing /\ Gate!DeleteFile => file' = Parsed(lines') BY DEF Gate!DeleteFile, Parsed
  <2>5. ASSUME NEW i \in 1..Len(now) + 1, NEW l \in DeveloperLines, lines' = InsertAt(now, i, l)
        PROVE  lines' \in Seq(FileLines)
    BY <2>1, <2>5, EditedLines
  <2>6. ASSUME NEW i \in DOMAIN now, lines' = RemoveAt(now, i) PROVE lines' \in Seq(FileLines)
    BY <2>1, <2>6, EditedLines
  <2> QED BY <1>8, <2>2, <2>3, <2>4, <2>5, <2>6 DEF EditLines
<1>9. ASSUME EditTree PROVE UNCHANGED <<lines, file, edits, runs>>
  BY <1>9 DEF EditTree, Gate!EditTree
<1>10. CASE UNCHANGED vars BY <1>2, <1>10 DEF vars
<1> HIDE DEF Ok
<1> QED BY <1>1, <1>2, <1>3, <1>4, <1>5, <1>6, <1>7a, <1>8, <1>9, <1>10 DEF Next, Step

-----------------------------------------------------------------------------
(* What is proved of the gate holds of the lines *)

\* The proofs about the gate, of the gate of these lines.
P == INSTANCE UnwiredGateProofs WITH Reasons <- Seq(CommentLines) \ {<<>>}, NoReason <- <<>>

\* The instance of the gate in BaselineFile and the one below the proofs have the
\* same constants, so their operators on file contents are the same.
LEMMA SameContents ==
  /\ Gate!Notes = P!Notes /\ Gate!Contents = P!Contents /\ Gate!Empty = P!Empty
  /\ Gate!Modes = P!Modes /\ Gate!NoCode = P!NoCode /\ Gate!KilledCode = P!KilledCode
  /\ Gate!Rewriting = P!Rewriting /\ Gate!BeingWritten = P!BeingWritten
  /\ \A x : Gate!Text(x) = P!Text(x) /\ Gate!Entries(x) = P!Entries(x) /\ Gate!KeysOf(x) = P!KeysOf(x)
<1>1. Gate!Contents = P!Contents BY DEF Gate!Contents, P!Contents, Gate!Notes, P!Notes
<1>2. Gate!Empty = P!Empty BY DEF Gate!Empty, P!Empty
<1>3. Gate!Rewriting = P!Rewriting BY DEF Gate!Rewriting, P!Rewriting
<1>4. Gate!BeingWritten = P!BeingWritten BY DEF Gate!BeingWritten, P!BeingWritten
<1> QED
  BY <1>1, <1>2, <1>3, <1>4 DEF Gate!Notes, P!Notes, Gate!Modes, P!Modes, Gate!NoCode, P!NoCode,
     Gate!KilledCode, P!KilledCode, Gate!Text, P!Text, Gate!Entries, P!Entries, Gate!KeysOf, P!KeysOf

\* They agree on what a rewrite leaves, whole or torn, and on what a check decides.
LEMMA SameTexts ==
  /\ \A F, c : Gate!Rewritten(F, c) = P!Rewritten(F, c)
  /\ \A F, c : Gate!Torn(F, c) = P!Torn(F, c)
  /\ \A F, f : Gate!Verdict(F, f) = P!Verdict(F, f)
  /\ \A F : Gate!AfterRewrite(F) = P!AfterRewrite(F)
<1>1. \A F, c : Gate!Rewritten(F, c) = P!Rewritten(F, c)
  BY SameContents DEF Gate!Rewritten, P!Rewritten
<1>2. \A F, c : Gate!Torn(F, c) = P!Torn(F, c) BY <1>1, SameContents DEF Gate!Torn, P!Torn
<1>3. \A F, f : Gate!Verdict(F, f) = P!Verdict(F, f)
  BY SameContents DEF Gate!Verdict, P!Verdict, Gate!Added, P!Added
<1>4. \A F : Gate!AfterRewrite(F) = P!AfterRewrite(F)
  BY SameContents DEF Gate!AfterRewrite, P!AfterRewrite
<1> QED BY <1>1, <1>2, <1>3, <1>4

\* They take the same steps, action by action.
LEMMA SameSteps == Gate!Next <=> P!Next
<1> USE SameContents, SameTexts
    DEF Gate!Exit, P!Exit, Gate!Forget, P!Forget, Gate!runVars, P!runVars, Gate!history, P!history
<1>1. \A p, m : Gate!Start(p, m) <=> P!Start(p, m)
  BY DEF Gate!Start, P!Start, Gate!OneWriter, P!OneWriter
<1>2. \A p : Gate!Scan(p) <=> P!Scan(p) BY DEF Gate!Scan, P!Scan
<1>3. \A p : Gate!ScanFails(p) <=> P!ScanFails(p) BY DEF Gate!ScanFails, P!ScanFails
<1>4. \A p : Gate!List(p) <=> P!List(p) BY DEF Gate!List, P!List
<1>5. \A p : Gate!Check(p) <=> P!Check(p) BY DEF Gate!Check, P!Check
<1>6. \A p : Gate!ReadReasons(p) <=> P!ReadReasons(p) BY DEF Gate!ReadReasons, P!ReadReasons
<1>7. \A p : Gate!Truncate(p) <=> P!Truncate(p) BY DEF Gate!Truncate, P!Truncate
<1>8. \A p : Gate!WriteBody(p) <=> P!WriteBody(p) BY DEF Gate!WriteBody, P!WriteBody
<1>9. \A p : Gate!IOFails(p) <=> P!IOFails(p) BY DEF Gate!IOFails, P!IOFails
<1>10. \A p : Gate!KilledBefore(p) <=> P!KilledBefore(p) BY DEF Gate!KilledBefore, P!KilledBefore
<1>11. \A p, c : Gate!StopShort(p, c) <=> P!StopShort(p, c) BY DEF Gate!StopShort, P!StopShort
<1>12. Gate!EditTree <=> P!EditTree BY DEF Gate!EditTree, P!EditTree
<1>13. \A c : Gate!EditFile(c) <=> P!EditFile(c) BY DEF Gate!EditFile, P!EditFile
<1>14. Gate!DeleteFile <=> P!DeleteFile BY DEF Gate!DeleteFile, P!DeleteFile
<1>15. \A p : Gate!Step(p) <=> P!Step(p)
  BY <1>2, <1>3, <1>4, <1>5, <1>6, <1>7, <1>8, <1>9, <1>11
  DEF Gate!Step, P!Step, Gate!WriteFails, P!WriteFails
<1>16. \A p : Gate!Killed(p) <=> P!Killed(p)
  BY <1>10, <1>11 DEF Gate!Killed, P!Killed
<1>17. Gate!Developer <=> P!Developer
  BY <1>12, <1>13, <1>14 DEF Gate!Developer, P!Developer
<1> QED BY <1>1, <1>15, <1>16, <1>17 DEF Gate!Next, P!Next

\* The assumptions of the gate hold of these lines.
LEMMA GateAssumptions ==
  /\ KeyOf \in [Decls -> Keys]
  /\ Absent \notin P!Notes /\ <<>> \notin Seq(CommentLines) \ {<<>>}
  /\ Missing \notin P!Contents /\ NotRead \notin P!Contents /\ Missing # NotRead
<1>1. <<>> \in Seq(CommentLines) OBVIOUS
<1> QED BY <1>1, SameContents, KeyOrderAssumption, MarkersAssumption DEF P!Notes

\* They start in the same states.
LEMMA SameInit == Gate!Init => P!Init
BY SameContents DEF Gate!Init, P!Init

\* They state the same properties.
LEMMA SameTypes == /\ Gate!TypeOK <=> P!TypeOK
                   /\ Gate!ReasonsSurvive <=> P!ReasonsSurvive
BY SameContents DEF Gate!TypeOK, P!TypeOK, Gate!Phases, P!Phases, Gate!Codes, P!Codes,
                    Gate!ReasonsSurvive, P!ReasonsSurvive

GateInv == P!TypeInv /\ P!Control /\ P!Record

\* Each step of the lines keeps the invariant proved of the gate.
LEMMA GateInvStep == Inv /\ GateInv /\ [Next]_vars => GateInv'
<1> SUFFICES ASSUME Inv, GateInv, [Next]_vars PROVE GateInv' OBVIOUS
<1>1. [P!Next]_(P!vars)
  <2>1. UNCHANGED Gate!vars => UNCHANGED P!vars
    BY DEF Gate!vars, P!vars, Gate!runVars, P!runVars, Gate!history, P!history
  <2> QED BY <2>1, GateStep, SameSteps
<1>2. P!TypeInv /\ P!Control /\ P!Record BY DEF GateInv
<1>3. P!TypeInv' BY <1>1, <1>2, GateAssumptions, P!TypeStep
<1>4. P!Control' BY <1>1, <1>2, GateAssumptions, P!ControlStep
<1>5. P!Record' BY <1>1, <1>2, GateAssumptions, P!RecordStep
<1> QED BY <1>3, <1>4, <1>5 DEF GateInv

\* At first both invariants hold.
LEMMA GateInvInit == Init => Inv /\ GateInv
<1> SUFFICES ASSUME Init PROVE Inv /\ GateInv OBVIOUS
<1>1. P!Init BY InvInit, SameInit
<1>2. P!TypeInv BY <1>1, GateAssumptions, P!TypeInit
<1>3. P!Control BY <1>1, GateAssumptions, P!ControlInit
<1>4. P!Record BY <1>1, GateAssumptions, P!RecordInit
<1> QED BY <1>2, <1>3, <1>4, InvInit DEF GateInv

\* Each step of the lines keeps both invariants.
LEMMA InvStep == Inv /\ GateInv /\ [Next]_vars => Inv' /\ GateInv'
<1> SUFFICES ASSUME Inv, GateInv, [Next]_vars PROVE Inv' /\ GateInv' OBVIOUS
<1>1. GateInv' BY GateInvStep
<1>2. Gate!TypeOK'
  BY <1>1, SameContents DEF GateInv, P!TypeInv, Gate!TypeOK, P!TypeOK, Gate!Phases, P!Phases, Gate!Codes, P!Codes
<1>3. TypeOK' /\ file' = Parsed(lines') BY <1>2, FileStep DEF TypeOK
<1>4. \A p \in Procs : /\ pc'[p] \in {"read", "truncated"} => view'[p] \in Gate!Contents
                       /\ pc'[p] # "idle" => code'[p] = Gate!NoCode
  BY <1>1, SameContents DEF GateInv, P!TypeInv, P!ViewsRead, P!Control, P!PhasesMatch
<1> QED BY <1>1, <1>3, <1>4 DEF Inv

-----------------------------------------------------------------------------
(* The scan finds the comment blocks *)

\* The places before line i + 1 where comments end.
Ends(f, i) == {0} \cup {j \in 1..i : ~IsComment(f[j])}

AllComments(f, i) == \A j \in 1..i : IsComment(f[j])

\* A comment moves no end of comments; any other line is the last of them.
LEMMA EndsStep ==
  ASSUME NEW f, NEW i \in Nat
  PROVE  /\ IsComment(f[i + 1]) => Ends(f, i + 1) = Ends(f, i)
         /\ ~IsComment(f[i + 1]) => Max(Ends(f, i + 1)) = i + 1
<1>1. 1..(i + 1) = 1..i \cup {i + 1} OBVIOUS
<1>2. CASE IsComment(f[i + 1]) BY <1>1, <1>2 DEF Ends
<1>3. CASE ~IsComment(f[i + 1])
  <2>1. Ends(f, i + 1) \subseteq 0..(i + 1) /\ i + 1 \in Ends(f, i + 1) BY <1>3 DEF Ends
  <2>2. Ends(f, i + 1) \subseteq Int /\ \A x \in Ends(f, i + 1) : i + 1 >= x BY <2>1
  <2>3. Max(Ends(f, i + 1)) = i + 1 BY <2>1, <2>2, MaxIs
  <2> QED BY <1>3, <2>3
<1> QED BY <1>2, <1>3

\* The last end of comments is at or before the line above.
LEMMA LastEnd ==
  ASSUME NEW f, NEW i \in Nat
  PROVE  Max(Ends(f, i)) \in 0..i
<1> DEFINE G == {k \in Nat : Max(Ends(f, k)) \in 0..k}
<1>1. 0 \in G
  <2>1. Ends(f, 0) = {0} BY DEF Ends
  <2>2. Max({0}) = 0
    <3>1. {0} \subseteq Int /\ 0 \in {0} /\ \A x \in {0} : 0 >= x OBVIOUS
    <3> QED BY <3>1, MaxIs
  <2> QED BY <2>1, <2>2
<1>2. ASSUME NEW k \in Nat, k \in G PROVE k + 1 \in G
  <2>1. Max(Ends(f, k)) \in 0..k BY <1>2
  <2>2. Max(Ends(f, k + 1)) \in 0..(k + 1) BY <2>1, EndsStep
  <2> QED BY <2>2
<1> HIDE DEF G
<1>3. Nat \subseteq G BY <1>1, <1>2, Induction
<1> QED BY <1>3 DEF G

\* The reason of line i depends on the lines above it.
LEMMA ReasonIs ==
  ASSUME NEW f, NEW i \in Nat
  PROVE  ReasonAt(f, i + 1) = IF AllComments(f, i) THEN <<>> ELSE SubSeq(f, 1 + Max(Ends(f, i)), i)
<1>1. (i + 1) - 1 = i OBVIOUS
<1> QED BY <1>1 DEF ReasonAt, AllComments, DirectlyAbove, Ends

\* What stands above a line does not change when a line is added below.
LEMMA ReasonAbove ==
  ASSUME NEW S, NEW f \in Seq(S), NEW l \in S, NEW i \in 0..Len(f)
  PROVE  ReasonAt(Append(f, l), i + 1) = ReasonAt(f, i + 1)
<1> DEFINE g == Append(f, l)
           m == Max(Ends(f, i))
<1>1. Len(f) \in Nat /\ i \in Nat OBVIOUS
<1>2. \A j \in 1..i : g[j] = f[j] /\ f[j] \in S BY AppendIs
<1> HIDE DEF g
<1>3. AllComments(g, i) <=> AllComments(f, i) BY <1>2 DEF AllComments
<1>4. Ends(g, i) = Ends(f, i) BY <1>2 DEF Ends
<1>5. m \in 0..i BY <1>1, LastEnd
<1> HIDE DEF m
<1>6. SubSeq(g, 1 + m, i) = SubSeq(f, 1 + m, i)
  <2>1. \A j \in 1 + m..i : g[j] \in S /\ f[j] \in S /\ g[j] = f[j] BY <1>1, <1>2, <1>5
  <2>2. 1 + m \in Int /\ i \in Int BY <1>1, <1>5
  <2>3. /\ SubSeq(g, 1 + m, i) \in Seq(S) /\ SubSeq(f, 1 + m, i) \in Seq(S)
        /\ Len(SubSeq(g, 1 + m, i)) = Len(SubSeq(f, 1 + m, i))
        /\ Len(SubSeq(g, 1 + m, i)) = IF 1 + m <= i THEN i - (1 + m) + 1 ELSE 0
        /\ \A j \in 1..i - (1 + m) + 1 : /\ SubSeq(g, 1 + m, i)[j] = g[(1 + m) + j - 1]
                                         /\ SubSeq(f, 1 + m, i)[j] = f[(1 + m) + j - 1]
    BY <2>1, <2>2, SubSeqProperties
  <2>4. \A j \in 1..i - (1 + m) + 1 : (1 + m) + j - 1 \in 1 + m..i BY <1>1, <1>5
  <2>5. \A j \in 1..Len(SubSeq(g, 1 + m, i)) : SubSeq(g, 1 + m, i)[j] = SubSeq(f, 1 + m, i)[j]
    BY <2>1, <2>2, <2>3, <2>4
  <2> QED BY <2>3, <2>5, SeqEqual
<1> QED BY <1>1, <1>3, <1>4, <1>6, ReasonIs DEF g, m

\* The reason of the line after a comment, and after any other line.
LEMMA ReasonBelow ==
  ASSUME NEW S, NEW f \in Seq(S), NEW l \in S
  PROVE  LET n == Len(f) IN
         ReasonAt(Append(f, l), n + 2) =
           IF IsComment(l) /\ ~AllComments(f, n) THEN Append(ReasonAt(f, n + 1), l) ELSE <<>>
<1> DEFINE g == Append(f, l)
           n == Len(f)
           m == Max(Ends(f, n))
<1>1. n \in Nat /\ g \in Seq(S) /\ g[n + 1] = l /\ Len(g) = n + 1 /\ \A j \in 1..n : g[j] = f[j] BY AppendIs
<1>a. n + 2 = (n + 1) + 1 /\ n + 1 \in Nat BY <1>1
<1> HIDE DEF g
<1>2. AllComments(g, n + 1) <=> AllComments(f, n) /\ IsComment(l) BY <1>1 DEF AllComments
<1>3. Ends(g, n) = Ends(f, n) BY <1>1 DEF Ends
<1>4. m \in 0..n BY <1>1, LastEnd
<1> HIDE DEF m, n
<1>5. ReasonAt(g, n + 2) = IF AllComments(g, n + 1) THEN <<>> ELSE SubSeq(g, 1 + Max(Ends(g, n + 1)), n + 1)
  BY <1>a, ReasonIs
<1>6. CASE ~IsComment(l)
  <2>1. Max(Ends(g, n + 1)) = n + 1 BY <1>1, <1>6, EndsStep
  <2>2. SubSeq(g, 1 + (n + 1), n + 1) = <<>>
    <3>1. 1 + (n + 1) \in Int /\ n + 1 \in Int /\ n + 1 < 1 + (n + 1) BY <1>1
    <3> QED BY <3>1, SubSeqEmpty
  <2> QED BY <1>2, <1>5, <1>6, <2>1, <2>2 DEF g, n
<1>7. CASE IsComment(l) /\ AllComments(f, n) BY <1>2, <1>5, <1>7 DEF g, n
<1>8. CASE IsComment(l) /\ ~AllComments(f, n)
  <2>1. Ends(g, n + 1) = Ends(f, n) BY <1>1, <1>3, <1>8, EndsStep
  <2>2. ReasonAt(g, n + 2) = SubSeq(g, 1 + m, n + 1) BY <1>2, <1>5, <1>8, <2>1 DEF m
  <2>3. ReasonAt(f, n + 1) = SubSeq(f, 1 + m, n) BY <1>1, <1>8, ReasonIs DEF m
  <2>4. SubSeq(g, 1 + m, n + 1) = Append(SubSeq(f, 1 + m, n), l)
    <3>1. \A j \in 1 + m..n : f[j] \in S BY <1>4 DEF n
    <3>2. \A j \in 1 + m..n + 1 : g[j] \in S BY <1>1, <1>4
    <3>3. 1 + m \in Int /\ n \in Int /\ n + 1 \in Int BY <1>1, <1>4
    <3> DEFINE a == SubSeq(g, 1 + m, n + 1)
               b == SubSeq(f, 1 + m, n)
               k == n - m
    <3>4. k \in Nat /\ k = IF 1 + m <= n THEN n - (1 + m) + 1 ELSE 0 BY <1>1, <1>4
    <3>5. /\ b \in Seq(S) /\ Len(b) = k
          /\ \A j \in 1..n - (1 + m) + 1 : b[j] = f[(1 + m) + j - 1]
      BY <3>1, <3>3, <3>4, SubSeqProperties
    <3>6. /\ a \in Seq(S) /\ Len(a) = k + 1
          /\ \A j \in 1..(n + 1) - (1 + m) + 1 : a[j] = g[(1 + m) + j - 1]
      <4>1. k + 1 = IF 1 + m <= n + 1 THEN (n + 1) - (1 + m) + 1 ELSE 0 BY <1>1, <1>4
      <4> HIDE DEF k
      <4> QED BY <3>2, <3>3, <4>1, SubSeqProperties
    <3>7. n - (1 + m) + 1 = k /\ (n + 1) - (1 + m) + 1 = k + 1 /\ \A j \in Int : (1 + m) + j - 1 = m + j
      BY <1>1, <1>4
    <3>8. m + (k + 1) = n + 1 /\ \A j \in 1..k : m + j \in 1..n BY <1>1, <1>4
    <3> HIDE DEF a, b, k
    <3> DEFINE d == Append(b, l)
    <3>9. d \in Seq(S) /\ Len(d) = k + 1 /\ d[k + 1] = l /\ \A j \in 1..k : d[j] = b[j] BY <3>5, AppendIs
    <3> HIDE DEF d
    <3>10. \A j \in 1..k : a[j] = d[j]
      <4>1. \A j \in 1..k : j \in 1..k + 1 /\ j \in Int BY <3>4
      <4>2. \A j \in 1..k : b[j] = f[m + j] BY <3>5, <3>7, <4>1
      <4>3. \A j \in 1..k : a[j] = g[m + j] BY <3>6, <3>7, <4>1
      <4> QED BY <1>1, <3>8, <3>9, <4>2, <4>3
    <3>11. a[k + 1] = d[k + 1]
      <4>1. k + 1 \in 1..k + 1 /\ k + 1 \in Int BY <3>4
      <4>2. a[k + 1] = g[m + (k + 1)] BY <3>6, <3>7, <4>1
      <4> QED BY <1>1, <3>8, <3>9, <4>2
    <3>12. \A j \in 1..k + 1 : a[j] = d[j] BY <3>4, <3>10, <3>11
    <3>13. a = d BY <3>6, <3>9, <3>12, SeqEqual
    <3> QED BY <3>13 DEF a, b, d
  <2> QED BY <1>8, <2>2, <2>3, <2>4 DEF g, n
<1> QED BY <1>6, <1>7, <1>8

Having(f) == {i \in DOMAIN f : IsEntry(f[i]) /\ ReasonAt(f, i) # <<>>}
LastOf(f, t) == Max({i \in Having(f) : KeyText(f[i]) = t})
Blocked(f) == [t \in {KeyText(f[i]) : i \in Having(f)} |-> ReasonAt(f, LastOf(f, t))]

\* The entries with a reason, of a file with one line more.
LEMMA HavingStep ==
  ASSUME NEW S, NEW f \in Seq(S), NEW l \in S
  PROVE  LET g == Append(f, l)
             n == Len(f)
         IN /\ Having(f) \subseteq 1..n /\ n \in Nat
            /\ \A i \in 1..n : g[i] = f[i] /\ ReasonAt(g, i) = ReasonAt(f, i)
            /\ g[n + 1] = l /\ ReasonAt(g, n + 1) = ReasonAt(f, n + 1)
            /\ Having(g) = Having(f) \cup {i \in {n + 1} : IsEntry(l) /\ ReasonAt(f, n + 1) # <<>>}
<1> DEFINE g == Append(f, l)
           n == Len(f)
<1>1. /\ n \in Nat /\ DOMAIN f = 1..n /\ DOMAIN g = 1..n \cup {n + 1} /\ g[n + 1] = l
      /\ \A i \in 1..n : g[i] = f[i]
  OBVIOUS
<1>2. \A i \in 0..n : ReasonAt(g, i + 1) = ReasonAt(f, i + 1) BY ReasonAbove
<1> HIDE DEF g, n
<1>3. \A i \in 1..n : i - 1 \in 0..n /\ (i - 1) + 1 = i BY <1>1
<1>4. (\A i \in 1..n : ReasonAt(g, i) = ReasonAt(f, i)) /\ ReasonAt(g, n + 1) = ReasonAt(f, n + 1)
  <2>1. n \in 0..n BY <1>1
  <2> QED BY <1>2, <1>3, <2>1
<1>5. Having(f) \subseteq 1..n BY <1>1 DEF Having
<1>6. Having(g) = Having(f) \cup {i \in {n + 1} : IsEntry(l) /\ ReasonAt(f, n + 1) # <<>>}
  BY <1>1, <1>4 DEF Having
<1> QED BY <1>1, <1>4, <1>5, <1>6 DEF g, n

\* What the scan knows after the lines of f.
Known(f) == [inHeader |-> AllComments(f, Len(f)), pending |-> ReasonAt(f, Len(f) + 1), out |-> Blocked(f)]

\* The reasons of a file with one line more.
LEMMA BlockedStep ==
  ASSUME NEW S, NEW f \in Seq(S), NEW l \in S
  PROVE  /\ ~IsEntry(l) => Blocked(Append(f, l)) = Blocked(f)
         /\ IsEntry(l) => Blocked(Append(f, l)) = Recorded(Known(f), l)
<1> DEFINE g == Append(f, l)
           n == Len(f)
           reason == ReasonAt(f, n + 1)
           key == KeyText(l)
<1>1. /\ Having(f) \subseteq 1..n /\ n \in Nat
      /\ \A i \in 1..n : g[i] = f[i] /\ ReasonAt(g, i) = ReasonAt(f, i)
      /\ g[n + 1] = l /\ ReasonAt(g, n + 1) = reason
      /\ Having(g) = Having(f) \cup {i \in {n + 1} : IsEntry(l) /\ reason # <<>>}
  BY HavingStep
<1> HIDE DEF g, n, reason, key
<1>2. ASSUME NEW t, t \in {KeyText(f[i]) : i \in Having(f)}, LastOf(g, t) = LastOf(f, t)
      PROVE  ReasonAt(g, LastOf(g, t)) = ReasonAt(f, LastOf(f, t))
  <2> DEFINE places == {i \in Having(f) : KeyText(f[i]) = t}
  <2>1. places # {} /\ places \subseteq 1..n BY <1>1, <1>2
  <2>2. LastOf(f, t) \in 1..n
    <3> HIDE DEF places
    <3>1. Max(places) \in places BY <1>1, <2>1, MaxOf
    <3> QED BY <2>1, <3>1 DEF LastOf, places
  <2> QED BY <1>1, <1>2, <2>2
<1>3. CASE ~IsEntry(l) \/ reason = <<>>
  <2>1. Having(g) = Having(f) /\ \A i \in Having(f) : g[i] = f[i] BY <1>1, <1>3
  <2>2. \A t : LastOf(g, t) = LastOf(f, t)
    <3>1. \A t : {i \in Having(g) : KeyText(g[i]) = t} = {i \in Having(f) : KeyText(f[i]) = t} BY <2>1
    <3> QED BY <3>1 DEF LastOf
  <2>3. {KeyText(g[i]) : i \in Having(g)} = {KeyText(f[i]) : i \in Having(f)} BY <2>1
  <2>4. Blocked(g) = Blocked(f) BY <1>2, <2>2, <2>3 DEF Blocked
  <2>5. reason = <<>> => Recorded(Known(f), l) = Blocked(f) BY DEF Recorded, Known, reason, n
  <2> QED BY <1>3, <2>4, <2>5 DEF g
<1>4. CASE IsEntry(l) /\ reason # <<>>
  <2>1. Having(g) = Having(f) \cup {n + 1} /\ n + 1 \notin Having(f) BY <1>1, <1>4
  <2> DEFINE T == {KeyText(f[i]) : i \in Having(f)}
  <2>2. {KeyText(g[i]) : i \in Having(g)} = T \cup {key} BY <1>1, <2>1 DEF key
  <2>3. LastOf(g, key) = n + 1
    <3> DEFINE places == {i \in Having(g) : KeyText(g[i]) = key}
    <3>1. places \subseteq 1..n + 1 /\ n + 1 \in places BY <1>1, <2>1 DEF key
    <3>2. places \subseteq Int /\ \A x \in places : n + 1 >= x BY <1>1, <3>1
    <3> HIDE DEF places
    <3>3. Max(places) = n + 1 BY <3>1, <3>2, MaxIs
    <3> QED BY <3>3 DEF LastOf, places
  <2>4. ASSUME NEW t \in T, t # key PROVE ReasonAt(g, LastOf(g, t)) = ReasonAt(f, LastOf(f, t))
    <3>1. {i \in Having(g) : KeyText(g[i]) = t} = {i \in Having(f) : KeyText(f[i]) = t}
      BY <1>1, <2>1, <2>4 DEF key
    <3>2. LastOf(g, t) = LastOf(f, t) BY <3>1 DEF LastOf
    <3> QED BY <1>2, <3>2
  <2> HIDE DEF T
  <2>5. Blocked(f) = [t \in T |-> ReasonAt(f, LastOf(f, t))] BY DEF Blocked, T
  <2>6. Blocked(g) = [t \in T \cup {key} |-> ReasonAt(g, LastOf(g, t))] BY <2>2 DEF Blocked
  <2>7. ReasonAt(g, LastOf(g, key)) = reason BY <1>1, <2>3
  <2>8. Blocked(g) = [t \in T \cup {key} |-> IF t = key THEN reason ELSE Blocked(f)[t]]
    BY <2>4, <2>5, <2>6, <2>7
  <2>9. DOMAIN Blocked(f) = T BY <2>5
  <2>a. Known(f).pending = reason /\ Known(f).out = Blocked(f) BY DEF Known, reason, n
  <2> QED BY <1>4, <2>8, <2>9, <2>a DEF g, key, Recorded
<1> QED BY <1>3, <1>4

\* One more line leads from what the scan knows to what it knows then.
LEMMA KnownStep ==
  ASSUME NEW S, NEW f \in Seq(S), NEW l \in S
  PROVE  ScanLine(Known(f), l) = Known(Append(f, l))
<1> DEFINE g == Append(f, l)
           n == Len(f)
<1>1. n \in Nat /\ Len(g) = n + 1 /\ g[n + 1] = l /\ \A i \in 1..n : g[i] = f[i] BY AppendIs
<1>2. (n + 1) + 1 = n + 2 /\ 1..(n + 1) = 1..n \cup {n + 1} BY <1>1
<1>3. ReasonAt(g, n + 2) = IF IsComment(l) /\ ~AllComments(f, n) THEN Append(ReasonAt(f, n + 1), l) ELSE <<>>
  BY ReasonBelow
<1>4. /\ ~IsEntry(l) => Blocked(g) = Blocked(f)
      /\ IsEntry(l) => Blocked(g) = Recorded(Known(f), l)
  BY BlockedStep
<1>5. AllComments(g, n + 1) = (AllComments(f, n) /\ IsComment(l)) BY <1>1, <1>2 DEF AllComments
<1>6. AllComments(f, n) => ReasonAt(f, n + 1) = <<>> BY <1>1, ReasonIs
<1> DEFINE b == Blocked(f)
           r == ReasonAt(f, n + 1)
           a == AllComments(f, n)
<1>7. Known(f) = [inHeader |-> a, pending |-> r, out |-> b] BY DEF Known
<1>8. Known(g) = [inHeader |-> AllComments(g, n + 1), pending |-> ReasonAt(g, n + 2), out |-> Blocked(g)]
  BY <1>1, <1>2 DEF Known
<1> HIDE DEF g, n, a, b, r
<1>a. a \in BOOLEAN BY DEF a, AllComments
<1>9. CASE IsBlank(l)
  <2>1. ~IsComment(l) /\ ~IsEntry(l) BY <1>9 DEF IsComment, IsEntry
  <2>2. ScanLine(Known(f), l) = [inHeader |-> FALSE, pending |-> <<>>, out |-> b]
    BY <1>7, <1>9, BlankScanned
  <2>3. AllComments(g, n + 1) = FALSE BY <1>5, <2>1
  <2> QED BY <1>3, <1>4, <1>8, <2>1, <2>2, <2>3 DEF g, b
<1>10. CASE IsComment(l) /\ a
  <2>1. ~IsEntry(l) BY <1>10 DEF IsEntry
  <2>2. a = TRUE /\ AllComments(g, n + 1) = TRUE BY <1>5, <1>10, <1>a DEF a
  <2>3. Known(f) = [inHeader |-> TRUE, pending |-> r, out |-> b] BY <1>7, <2>2
  <2>4. ScanLine(Known(f), l) = Known(f) BY <1>10, <2>3, HeaderScanned
  <2>5. r = <<>> /\ ReasonAt(g, n + 2) = <<>> BY <1>3, <1>6, <1>10 DEF a, r
  <2> QED BY <1>4, <1>8, <2>1, <2>2, <2>3, <2>4, <2>5 DEF g, b
<1>11. CASE IsComment(l) /\ ~a
  <2>1. ~IsEntry(l) BY <1>11 DEF IsEntry
  <2>2. a = FALSE /\ AllComments(g, n + 1) = FALSE BY <1>5, <1>11, <1>a DEF a
  <2>3. Known(f) = [inHeader |-> FALSE, pending |-> r, out |-> b] BY <1>7, <2>2
  <2>4. ScanLine(Known(f), l) = [inHeader |-> FALSE, pending |-> Append(r, l), out |-> b]
    BY <1>11, <2>3, CommentScanned
  <2>5. ReasonAt(g, n + 2) = Append(r, l) BY <1>3, <1>11 DEF a, r
  <2> QED BY <1>4, <1>8, <2>1, <2>2, <2>4, <2>5 DEF g, b
<1>12. CASE IsEntry(l)
  <2>1. ~IsComment(l) BY <1>12 DEF IsEntry
  <2>2. ScanLine(Known(f), l) = [inHeader |-> FALSE, pending |-> <<>>, out |-> Recorded(Known(f), l)]
    BY <1>12, EntryScanned
  <2>3. AllComments(g, n + 1) = FALSE BY <1>5, <2>1
  <2> QED BY <1>3, <1>4, <1>8, <1>12, <2>1, <2>2, <2>3 DEF g
<1> QED BY <1>9, <1>10, <1>11, <1>12 DEF IsEntry

\* The scan knows exactly this of any file.
THEOREM ScanKnows ==
  ASSUME NEW S, NEW f \in Seq(S)
  PROVE  Scan(f) = Known(f)
<1> DEFINE G == {g \in Seq(S) : Scan(g) = Known(g)}
<1>1. <<>> \in G
  <2>1. Len(<<>>) = 0 /\ <<>> \in Seq(S) OBVIOUS
  <2>2. AllComments(<<>>, 0) BY DEF AllComments
  <2>3. ReasonAt(<<>>, 0 + 1) = <<>> BY <2>2, ReasonIs
  <2>4. Having(<<>>) = {} BY DEF Having
  <2>5. Blocked(<<>>) = <<>> BY <2>4 DEF Blocked
  <2>6. AllComments(<<>>, 0) = TRUE BY <2>2 DEF AllComments
  <2>7. Known(<<>>) = BeforeFirst BY <2>1, <2>3, <2>5, <2>6 DEF Known, BeforeFirst
  <2> QED BY <2>1, <2>7, ScanEmpty
<1>2. ASSUME NEW g \in Seq(S), NEW l \in S, g \in G PROVE Append(g, l) \in G
  <2>1. Scan(Append(g, l)) = ScanLine(Scan(g), l) BY ScanStep
  <2>2. Scan(g) = Known(g) BY <1>2
  <2>3. ScanLine(Known(g), l) = Known(Append(g, l)) BY KnownStep
  <2>4. Append(g, l) \in Seq(S) BY AppendIs
  <2> QED BY <2>1, <2>2, <2>3, <2>4
<1> HIDE DEF G
<1>3. Seq(S) \subseteq G BY <1>1, <1>2, InductionOnSequences
<1> QED BY <1>3 DEF G

-----------------------------------------------------------------------------
(* The theorems *)

\* The lines keep their invariant and that of the gate.
LEMMA Invariance == Spec => [](Inv /\ GateInv)
<1>1. Inv /\ GateInv /\ [Next]_vars => (Inv /\ GateInv)' BY InvStep
<1> QED BY <1>1, GateInvInit, PTL DEF Spec

\* The file is always lines that developers or rewrites leave, and the gate's
\* variables are typed.
THEOREM TypeCorrect == Spec => []TypeOK
<1>1. Inv => TypeOK BY DEF Inv
<1> QED BY <1>1, Invariance, PTL

\* The lines implement the gate: what a rewrite composes is read back as the entries
\* and reasons it meant, and a rewrite cut short as some of them, for files, scans
\* and reasons of any length.
THEOREM LinesRefineTheGate == Spec => GateRefined
<1>1. Init => Gate!Init BY InvInit
<1>2. Inv /\ [Next]_vars => [Gate!Next]_(Gate!vars) BY GateStep
<1> QED BY <1>1, <1>2, Invariance, PTL DEF Spec, GateRefined

\* What holds of the gate for that reason: outside a rewrite the lines of the file say
\* what the developer's edits and whole rewrites made them say.
THEOREM ReasonsSurviveInLines == Spec => []Gate!ReasonsSurvive
<1>1. GateInv => Gate!ReasonsSurvive BY SameTypes DEF GateInv, P!Record
<1> QED BY <1>1, Invariance, PTL

\* What the gate says of finished runs, in terms of the two instances.
LEMMA SamePromises == /\ Gate!SmallerAlsoPasses <=> P!SmallerAlsoPasses
                      /\ Gate!OnlyGrowthExitsOne <=> P!OnlyGrowthExitsOne
                      /\ Gate!NoUnseenDecl <=> P!NoUnseenDecl
<1>1. Gate!SmallerAlsoPasses <=> P!SmallerAlsoPasses
  BY SameContents DEF Gate!SmallerAlsoPasses, P!SmallerAlsoPasses
<1>2. Gate!OnlyGrowthExitsOne <=> P!OnlyGrowthExitsOne
  BY SameContents DEF Gate!OnlyGrowthExitsOne, P!OnlyGrowthExitsOne, Gate!Added, P!Added
<1>3. Gate!NoUnseenDecl <=> P!NoUnseenDecl
  BY SameTexts DEF Gate!NoUnseenDecl, P!NoUnseenDecl
<1> QED BY <1>1, <1>2, <1>3

\* The invariant proved of the gate is the one GateInv names.
LEMMA GateInvIs == GateInv => P!Inv
BY DEF GateInv, P!Inv, P!TypeInv

\* A check of a file of lines exits 1 only on a declaration whose key no line of the
\* file it read holds, and passes wherever a check of more, against fewer entries, did.
THEOREM ExitCodesInLines == Spec => [](Gate!OnlyGrowthExitsOne /\ Gate!SmallerAlsoPasses)
<1>1. GateInv => P!OnlyGrowthExitsOne
  BY GateInvIs, GateAssumptions, P!GrowthExitsOne DEF P!OnlyGrowthExitsOne
<1>2. GateInv => P!SmallerAlsoPasses BY GateInvIs, GateAssumptions, P!SmallerPass
<1>3. GateInv => Gate!OnlyGrowthExitsOne /\ Gate!SmallerAlsoPasses BY <1>1, <1>2, SamePromises
<1> QED BY <1>3, Invariance, PTL

\* If no two declarations share a key, a check that passes against the lines a rewrite
\* left saw nothing that rewrite had not seen.
THEOREM GrowthIsSeenInLines ==
  ASSUME \A d, e \in Decls : KeyOf[d] = KeyOf[e] => d = e
  PROVE  Spec => []Gate!NoUnseenDecl
<1>1. GateInv => P!NoUnseenDecl BY GateInvIs, GateAssumptions, P!GrowthSeen
<1>2. GateInv => Gate!NoUnseenDecl BY <1>1, SamePromises
<1> QED BY <1>2, Invariance, PTL

\* Each verdict on a file of lines is about the decisions on record.
THEOREM VerdictsMatchInLines == Spec => Gate!VerdictMatchesDecisions
<1> DEFINE Judged(p) == /\ pc[p] = "loaded" /\ mode[p] = "check" /\ code'[p] \in {0, 1}
                        /\ ~Gate!BeingWritten /\ Gate!KeysOf(found[p]) \cap atRisk = {}
           Right(p) == code'[p] = 0 <=> \A d \in found[p] : decided[KeyOf[d]] # Absent
<1>1. ASSUME Inv, GateInv, Gate!Next, NEW p \in Procs, Judged(p) PROVE Right(p)
  <2>1. P!Judges(p) BY <1>1, SameContents DEF P!Judges
  <2>2. P!Next BY <1>1, SameSteps
  <2>3. code'[p] = 0 <=> P!Tolerated(p)
    BY <1>1, <2>1, <2>2, GateInvIs, GateAssumptions, P!VerdictStep
  <2> QED BY <2>3 DEF P!Tolerated
<1>2. Inv /\ GateInv /\ [Next]_vars => [\A p \in Procs : Judged(p) => Right(p)]_(Gate!vars)
  BY <1>1, GateStep
<1> QED BY <1>2, Invariance, PTL DEF Spec, Gate!VerdictMatchesDecisions

\* A file that was composed keeps every note of the entries it composes.
LEMMA ComposeAgain ==
  ASSUME NEW F \in SUBSET Decls, NEW c \in Gate!Contents
  PROVE  Compose(F, Gate!Rewritten(F, c)) = Compose(F, c)
<1> DEFINE keys == SortedKeys(F)
           r == Gate!Rewritten(F, c)
<1>1. \A i \in DOMAIN keys : keys[i] \in Gate!KeysOf(F) /\ keys[i] \in Keys BY SortedKeysAre DEF ToSet
<1>2. ASSUME NEW k \in Keys, k \in Gate!KeysOf(F) PROVE NoteOf(r, k) = NoteOf(c, k)
  <2>1. r[k] = NoteOf(c, k) BY <1>2 DEF Gate!Rewritten, NoteOf
  <2> QED BY <2>1, NotesAre DEF NoteOf
<1> HIDE DEF keys, r
<1>3. [i \in DOMAIN keys |-> EntryBlock(keys[i], NoteOf(r, keys[i]))]
      = [i \in DOMAIN keys |-> EntryBlock(keys[i], NoteOf(c, keys[i]))]
  BY <1>1, <1>2
<1>4. \A e : Compose(F, e) = Header \o << <<>> >>
                \o FlattenSeq([i \in DOMAIN keys |-> EntryBlock(keys[i], NoteOf(e, keys[i]))])
  BY DEF Compose, NoteOf, keys
<1> QED BY <1>3, <1>4 DEF r

\* Only a write that completes ends a rewrite with code 0.
LEMMA WriterEnds ==
  ASSUME Inv, [Next]_vars, NEW p \in Procs, pc[p] = "truncated", code'[p] = 0
  PROVE  WriteBody(p)
<1>0. /\ code \in [Procs -> Gate!Codes] /\ pc \in [Procs -> Gate!Phases]
      /\ code[p] # 0
  BY DEF Inv, TypeOK, Gate!TypeOK, Gate!NoCode
<1>1. ASSUME NEW q \in Procs, NEW c, Gate!Exit(q, c), pc[q] # "truncated" \/ c # 0 PROVE FALSE
  BY <1>0, <1>1 DEF Gate!Exit
<1>2. code' = code => FALSE BY <1>0
<1>3. ASSUME NEW q \in Procs, NEW m \in Gate!Modes, Start(q, m) PROVE FALSE
  BY <1>0, <1>3 DEF Start, Gate!Start
<1>4. ASSUME NEW q \in Procs, Elsewhere(q) PROVE FALSE
  BY <1>0, <1>1, <1>2, <1>4
  DEF Elsewhere, Gate!Scan, Gate!ScanFails, Gate!List, Gate!IOFails
<1>5. ASSUME NEW q \in Procs, Check(q) PROVE FALSE BY <1>1, <1>5 DEF Check
<1>6. ASSUME NEW q \in Procs, ReadReasons(q) \/ Truncate(q) PROVE FALSE
  BY <1>2, <1>6 DEF ReadReasons, Truncate
<1>7. ASSUME NEW q \in Procs, WriteFails(q) \/ Killed(q) PROVE FALSE
  <2>1. Gate!KilledCode # 0 BY DEF Gate!KilledCode
  <2>2. Gate!Exit(q, 2) \/ Gate!Exit(q, Gate!KilledCode)
    BY <1>7 DEF WriteFails, Killed, StopShort, Gate!KilledBefore
  <2> QED BY <1>1, <2>1, <2>2
<1>8. ASSUME NEW q \in Procs, WriteBody(q) PROVE q = p
  BY <1>0, <1>8 DEF WriteBody, Gate!Exit
<1>9. EditLines \/ EditTree \/ UNCHANGED vars => code' = code
  BY DEF EditLines, EditTree, Gate!EditFile, Gate!DeleteFile, Gate!EditTree, Gate!runVars, vars
<1> QED BY <1>2, <1>3, <1>4, <1>5, <1>6, <1>7, <1>8, <1>9 DEF Next, Step

\* A rewrite from the same scan changes no line of a file just written.
THEOREM RewritesAreStable == Spec => RewriteIsStable
<1> DEFINE Stable == \A p \in Procs : pc[p] = "truncated" /\ code'[p] = 0 => Compose(found[p], file') = lines'
<1>1. Inv /\ [Next]_vars => [Stable]_vars
  <2> SUFFICES ASSUME Inv, [Next]_vars, NEW p \in Procs, pc[p] = "truncated", code'[p] = 0
               PROVE  Compose(found[p], file') = lines'
    OBVIOUS
  <2>2. WriteBody(p) BY WriterEnds
  <2>3. found[p] \in SUBSET Decls /\ view[p] \in Gate!Contents BY DEF Inv, TypeOK, Gate!TypeOK
  <2>4. lines' = Compose(found[p], view[p]) /\ file' = Gate!Rewritten(found[p], view[p])
    BY <2>2, <2>3, RoundTrip DEF WriteBody
  <2> QED BY <2>3, <2>4, ComposeAgain
<1> QED BY <1>1, Invariance, PTL DEF Spec, RewriteIsStable

\* The one-pass scan finds, for each key, the comments directly above the last of its
\* entries that has some, in every file that developers and rewrites leave.
THEOREM ScansFindTheBlocks == Spec => []ScanFindsBlocks
<1>1. Inv => ScanFindsBlocks
  <2> SUFFICES ASSUME Inv, lines # Missing PROVE ReasonsIn(lines) = Blocked(lines)
    BY DEF ScanFindsBlocks, Blocked, Having, LastOf
  <2>1. lines \in Seq(FileLines) BY DEF Inv, TypeOK
  <2>2. Scan(lines) = Known(lines) BY <2>1, ScanKnows
  <2> QED BY <2>2 DEF ReasonsIn, Known
<1> QED BY <1>1, Invariance, PTL
=============================================================================
