--------------------------- MODULE CrdGateProofs ---------------------------
(***************************************************************************)
(* Proofs about CrdGate for any fields, columns and verdicts.  The         *)
(* argument: the walk of the code over the segments of a path finds the    *)
(* chains of fields that spell its names, and is lost where a chain comes  *)
(* to a dead end, so what a run takes from the columns is a reading of its *)
(* commit, the only one where names are distinct; a run past its schema    *)
(* has measured its own commit, its directories do not clash, and so its   *)
(* keys stand for one served field each.                                   *)
(***************************************************************************)
EXTENDS CrdGate, SequenceLemmas, FiniteSetTheorems

\* The declarations an analysis of a commit returns, and the keys a reading shows.
Entry(t, f) == [field |-> f, viaReflection |-> TagCredit(f),
                reads |-> TagCredit(f) + IF f \in t.read THEN 1 ELSE 0]
Measurement(t) == {Entry(t, f) : f \in t.declared}
KeysShown(shown) == {KeyOf[f] : f \in shown}

\* What a run has measured, by where it is.
Measured ==
  /\ pc \in {"proposed", "analyzed", "schema", "exempt", "done"}
  /\ pc \in {"analyzed", "schema", "exempt"} => decls = Measurement(commit)
  /\ pc \in {"schema", "exempt"} =>
       ~Clash(commit) /\ \E shown \in Readings(commit) : displayed = KeysShown(shown)
  /\ pc = "exempt" => exempt = Verdicts(commit)
  /\ pc # "done" => out = NoOutcome /\ code = NoCode

\* A code goes with its outcome; exit 0 is the code of a decision.
Decided ==
  /\ code \in {NoCode, 0, 1, 2}
  /\ pc = "done" => code # NoCode
  /\ code = 0 => ~Clash(commit) /\ Verdicts(commit) \in Gaps(commit)

\* The last commit that landed has the verdicts of its gaps, under keys of its own.
LandedKept ==
  /\ landed \in Commits \cup {EmptyTree}
  /\ ~Clash(landed) /\ Verdicts(landed) \in Gaps(landed)

Inv == commit \in Commits /\ Measured /\ Decided /\ VerdictIsExact /\ LandedKept

-----------------------------------------------------------------------------
(* Columns *)

\* A path as PathsAssumption has it.
Written(path) ==
  /\ path \in Seq(ToSet(path))
  /\ \A i \in DOMAIN path : path[i] \notin {Dot, Bracket} => i = 1 \/ path[i - 1] = Dot

\* A segment, where one begins, is the name there, or empty.
LEMMA SegmentIs ==
  ASSUME NEW path, Written(path), NEW i \in 1..(Len(path) + 1)
  PROVE  LET named == i <= Len(path) /\ path[i] \notin {Dot, Bracket}
         IN  /\ named => SegmentBegins(path, i) /\ SegmentAt(path, i) = <<path[i]>>
             /\ ~named => SegmentAt(path, i) = <<>>
<1> DEFINE n == Len(path)
           T == ToSet(path)
           named == i <= n /\ path[i] \notin {Dot, Bracket}
           ends == {j - 1 : j \in {j \in i..n : path[j] \in {Dot, Bracket}}}
<1>1. path \in Seq(T) /\ n \in Nat /\ DOMAIN path = 1..n BY DEF Written
<1>2. SegmentAt(path, i) = SubSeq(path, i, Min({n} \cup ends)) BY DEF SegmentAt
<1>3. {n} \cup ends \subseteq Int BY <1>1
<1>n. n \in Nat BY <1>1
<1> HIDE DEF T
<1>4. ASSUME named PROVE SegmentBegins(path, i) /\ SegmentAt(path, i) = <<path[i]>>
  <2>1. i \in 1..n /\ path[i] \notin {Dot, Bracket} BY <1>1, <1>4
  <2>2. SegmentBegins(path, i) BY <1>1, <2>1 DEF Written, SegmentBegins
  <2>3. i \in {n} \cup ends
    <3>1. CASE i = n BY <3>1
    <3>2. CASE i # n
      <4>1. i + 1 \in 1..n /\ (i + 1) - 1 = i /\ i + 1 # 1 BY <2>1, <3>2, <1>n
      <4>2. path[i + 1] \in {Dot, Bracket} BY <1>1, <2>1, <4>1 DEF Written
      <4>3. i + 1 \in {j \in i..n : path[j] \in {Dot, Bracket}} BY <4>1, <4>2
      <4> QED BY <4>1, <4>3
    <3> QED BY <3>1, <3>2
  <2>4. ASSUME NEW x \in {n} \cup ends PROVE i <= x
    <3>1. CASE x = n BY <2>1, <3>1, <1>1
    <3>2. CASE x \in ends
      <4>1. PICK j \in i..n : x = j - 1 /\ path[j] \in {Dot, Bracket} BY <3>2
      <4>2. j # i BY <2>1, <4>1
      <4> QED BY <4>1, <4>2, <1>1
    <3> QED BY <3>1, <3>2
  <2>5. Min({n} \cup ends) = i
    <3> HIDE DEF ends
    <3> QED BY <1>3, <2>3, <2>4, MinIs
  <2>6. SubSeq(path, i, i) = <<path[i]>> BY <1>1, <2>1, OneOf
  <2> QED BY <1>2, <2>2, <2>5, <2>6
<1>5. ASSUME ~named PROVE SegmentAt(path, i) = <<>>
  <2>1. i - 1 \in {n} \cup ends
    <3>1. CASE i = n + 1 BY <3>1, <1>1
    <3>2. CASE i # n + 1
      <4>1. i \in 1..n BY <3>2, <1>1
      <4>2. path[i] \in {Dot, Bracket} BY <1>1, <1>5, <4>1
      <4>3. i \in {j \in i..n : path[j] \in {Dot, Bracket}} BY <4>1, <4>2, <1>1
      <4> QED BY <4>3
    <3> QED BY <3>1, <3>2
  <2>2. \A x \in {n} \cup ends : i - 1 <= x BY <1>1
  <2>3. Min({n} \cup ends) = i - 1
    <3> HIDE DEF ends
    <3> QED BY <1>3, <2>1, <2>2, MinIs
  <2>4. SubSeq(path, i, i - 1) = <<>> BY <1>1
  <2> QED BY <1>2, <2>3, <2>4
<1> QED BY <1>4, <1>5

\* A chain of names is a sequence of fields, of the length of the names.
LEMMA ChainIsSequence ==
  ASSUME NEW t, NEW root, NEW X, NEW names \in Seq(X), NEW c \in Chains(t, root, names)
  PROVE  /\ c \in Seq(ColumnFields(t)) /\ Len(c) = Len(names)
         /\ Range(c) \subseteq ColumnFields(t)
<1>1. c \in [1..Len(names) -> ColumnFields(t)] /\ Len(names) \in Nat BY DEF Chains
<1> QED BY <1>1 DEF Range

\* A chain goes on to each field that fits at its end, and to no other.
ChainsExtend(t, root, names, x) ==
  /\ \A c \in Chains(t, root, names) : \A f \in ColumnFields(t) : Fits(f, x, EndOf(root, c)) =>
       /\ Append(c, f) \in Chains(t, root, Append(names, x))
       /\ EndOf(root, Append(c, f)) = ElemOf[f]
       /\ Range(Append(c, f)) = Range(c) \cup {f}
  /\ \A d \in Chains(t, root, Append(names, x)) :
       \E c \in Chains(t, root, names) : \E f \in ColumnFields(t) : Fits(f, x, EndOf(root, c)) /\ d = Append(c, f)
LEMMA ChainsAppend ==
  ASSUME NEW t, NEW root, NEW X, NEW names \in Seq(X), NEW x \in X
  PROVE  ChainsExtend(t, root, names, x)
<1> DEFINE n == Len(names)
           more == Append(names, x)
           fields == ColumnFields(t)
           At(c, i) == IF i = 1 THEN root ELSE ElemOf[c[i - 1]]
<1>1. /\ n \in Nat /\ DOMAIN names = 1..n /\ DOMAIN more = 1..(n + 1)
      /\ more[n + 1] = x /\ \A i \in 1..n : more[i] = names[i]
  OBVIOUS
<1>2. \A c : c \in Chains(t, root, names) <=> c \in [1..n -> fields] /\ \A i \in 1..n : Fits(c[i], names[i], At(c, i))
  BY <1>1 DEF Chains
<1>3. \A d : d \in Chains(t, root, more) <=>
               d \in [1..(n + 1) -> fields] /\ \A i \in 1..(n + 1) : Fits(d[i], more[i], At(d, i))
  BY <1>1 DEF Chains
<1>4. ASSUME NEW c \in [1..n -> fields], NEW d, \A i \in 1..n : d[i] = c[i]
      PROVE  (\A i \in 1..n : At(d, i) = At(c, i)) /\ At(d, n + 1) = EndOf(root, c)
  <2>1. \A i \in 1..n : At(d, i) = At(c, i) BY <1>1, <1>4
  <2>2. c \in Seq(fields) /\ Len(c) = n BY <1>1
  <2>3. c = <<>> <=> n = 0 BY <1>1, <2>2
  <2> QED BY <1>1, <1>4, <2>1, <2>2, <2>3 DEF EndOf
<1> HIDE DEF At, more
<1>5. ASSUME NEW c \in Chains(t, root, names), NEW f \in fields, Fits(f, x, EndOf(root, c))
      PROVE  /\ Append(c, f) \in Chains(t, root, more)
             /\ EndOf(root, Append(c, f)) = ElemOf[f]
             /\ Range(Append(c, f)) = Range(c) \cup {f}
  <2> DEFINE d == Append(c, f)
  <2>1. c \in Seq(fields) /\ Len(c) = n /\ c \in [1..n -> fields]
    BY <1>2, ChainIsSequence DEF Chains
  <2>2. d \in Seq(fields) /\ Len(d) = n + 1 /\ d[n + 1] = f /\ \A i \in 1..n : d[i] = c[i]
    BY <2>1, AppendIs
  <2> HIDE DEF d
  <2>3. d \in [1..(n + 1) -> fields] BY <1>1, <2>2
  <2>4. \A i \in 1..n : Fits(d[i], more[i], At(d, i)) BY <1>1, <1>2, <1>4, <2>1, <2>2
  <2>5. Fits(d[n + 1], more[n + 1], At(d, n + 1)) BY <1>1, <1>4, <1>5, <2>1, <2>2
  <2>6. d \in Chains(t, root, more) BY <1>1, <1>3, <2>3, <2>4, <2>5
  <2>7. EndOf(root, d) = ElemOf[f]
    <3>1. d # <<>> BY <1>1, <2>2
    <3> QED BY <2>2, <3>1 DEF EndOf
  <2>8. Range(d) = Range(c) \cup {f}
    <3>1. Range(d) = {d[i] : i \in 1..(n + 1)} /\ Range(c) = {c[i] : i \in 1..n} BY <2>1, <2>3 DEF Range
    <3>2. \A i \in 1..(n + 1) : i \in 1..n \/ i = n + 1 BY <1>1
    <3>3. n + 1 \in 1..(n + 1) /\ \A i \in 1..n : i \in 1..(n + 1) BY <1>1
    <3> QED BY <2>2, <3>1, <3>2, <3>3
  <2> QED BY <2>6, <2>7, <2>8 DEF d
<1>6. ASSUME NEW d \in Chains(t, root, more)
      PROVE  \E c \in Chains(t, root, names) : \E f \in fields : Fits(f, x, EndOf(root, c)) /\ d = Append(c, f)
  <2> DEFINE c == [i \in 1..n |-> d[i]]
  <2>1. d \in [1..(n + 1) -> fields] /\ \A i \in 1..(n + 1) : Fits(d[i], more[i], At(d, i)) BY <1>3
  <2>2. c \in [1..n -> fields] /\ \A i \in 1..n : d[i] = c[i] BY <1>1, <2>1
  <2>3. d[n + 1] \in fields BY <1>1, <2>1
  <2>4. d = Append(c, d[n + 1])
    <3>1. c \in Seq(fields) /\ Len(c) = n /\ d \in Seq(fields) /\ Len(d) = n + 1 BY <1>1, <2>1, <2>2
    <3> QED BY <1>1, <2>2, <2>3, <3>1
  <2> HIDE DEF c
  <2>5. \A i \in 1..n : Fits(c[i], names[i], At(c, i)) BY <1>1, <1>4, <2>1, <2>2
  <2>6. c \in Chains(t, root, names) BY <1>2, <2>2, <2>5
  <2>7. Fits(d[n + 1], x, EndOf(root, c)) BY <1>1, <1>4, <2>1, <2>2
  <2> QED BY <2>3, <2>4, <2>6, <2>7
<1> QED BY <1>5, <1>6 DEF more, ChainsExtend

\* With a name more there are the dead ends before it, and the chains it ends.
Stuck(t, root, c, x) == \A f \in ColumnFields(t) : ~Fits(f, x, EndOf(root, c))
LEMMA DeadEndAppend ==
  ASSUME NEW t, NEW root, NEW X, NEW names \in Seq(X), NEW x \in X
  PROVE  DeadEnd(t, root, Append(names, x)) <=>
      DeadEnd(t, root, names) \/ \E c \in Chains(t, root, names) : Stuck(t, root, c, x)
<1> DEFINE n == Len(names)
           more == Append(names, x)
<1>1. /\ n \in Nat /\ DOMAIN names = 1..n /\ DOMAIN more = 1..(n + 1)
      /\ more[n + 1] = x /\ \A i \in 1..n : more[i] = names[i]
  OBVIOUS
<1>2. ASSUME NEW i \in 1..(n + 1)
      PROVE  /\ SubSeq(more, 1, i - 1) = SubSeq(names, 1, i - 1)
             /\ i = n + 1 => SubSeq(more, 1, i - 1) = names
  <2>1. SubSeq(more, 1, i - 1) = [k \in 1..(i - 1) |-> more[k]] BY <1>1
  <2>2. SubSeq(names, 1, i - 1) = [k \in 1..(i - 1) |-> names[k]] BY <1>1
  <2>3. \A k \in 1..(i - 1) : more[k] = names[k] BY <1>1
  <2>4. SubSeq(more, 1, i - 1) = SubSeq(names, 1, i - 1) BY <2>1, <2>2, <2>3
  <2> QED BY <1>1, <2>4
<1>3. DeadEnd(t, root, more) <=>
    \E i \in 1..(n + 1) : \E c \in Chains(t, root, SubSeq(more, 1, i - 1)) : Stuck(t, root, c, more[i])
  BY <1>1 DEF DeadEnd, Stuck
<1>4. DeadEnd(t, root, names) <=>
    \E i \in 1..n : \E c \in Chains(t, root, SubSeq(names, 1, i - 1)) : Stuck(t, root, c, names[i])
  BY <1>1 DEF DeadEnd, Stuck
<1> HIDE DEF more
<1>5. \A i \in 1..(n + 1) : i \in 1..n \/ i = n + 1 BY <1>1
<1>6. n + 1 \in 1..(n + 1) /\ \A i \in 1..n : i \in 1..(n + 1) BY <1>1
<1>7. ASSUME DeadEnd(t, root, more)
    PROVE DeadEnd(t, root, names) \/ \E c \in Chains(t, root, names) : Stuck(t, root, c, x)
  <2>1. PICK i \in 1..(n + 1) : \E c \in Chains(t, root, SubSeq(more, 1, i - 1)) : Stuck(t, root, c, more[i]) BY <1>3, <1>7
  <2>2. CASE i \in 1..n BY <1>1, <1>2, <1>4, <2>1, <2>2
  <2>3. CASE i = n + 1 BY <1>1, <1>2, <2>1, <2>3
  <2> QED BY <1>5, <2>2, <2>3
<1>8. DeadEnd(t, root, names) => DeadEnd(t, root, more) BY <1>1, <1>2, <1>3, <1>4, <1>6
<1>9. (\E c \in Chains(t, root, names) : Stuck(t, root, c, x)) => DeadEnd(t, root, more) BY <1>1, <1>2, <1>3, <1>6
<1> QED BY <1>7, <1>8, <1>9 DEF more

\* The walk of a chain, and the walks of names: those of the chains that spell
\* them, and the lost one where there is a dead end.
WalkOf(root, c) == [at |-> EndOf(root, c), hops |-> Range(c), lost |-> FALSE]
WalksOf(t, root, names) == {WalkOf(root, c) : c \in Chains(t, root, names)} \cup {w \in {Lost} : DeadEnd(t, root, names)}

\* A segment that is a name takes the walks of the names before it to those of the
\* names with it.
LEMMA WalksHop ==
  ASSUME NEW t, NEW root, NEW X, NEW names \in Seq(X), NEW x \in X
  PROVE  UNION {Hop(t, w, <<x>>) : w \in WalksOf(t, root, names)} = WalksOf(t, root, Append(names, x))
<1> DEFINE Named(c) == {f \in ColumnFields(t) : Fits(f, x, EndOf(root, c))}
           Grown(c, f) == [at |-> ElemOf[f], hops |-> Range(c) \cup {f}, lost |-> FALSE]
           more == Append(names, x)
<1>2. Hop(t, Lost, <<x>>) = {Lost} BY DEF Hop, Lost
<1>3. ASSUME NEW c
      PROVE  Hop(t, WalkOf(root, c), <<x>>) = IF Named(c) = {} THEN {Lost} ELSE {Grown(c, f) : f \in Named(c)}
  <2> DEFINE w == WalkOf(root, c)
             named == {f \in ColumnFields(t) : StructOf[f] = w.at /\ <<JsonOf[f]>> = <<x>>}
  <2>1. w.at = EndOf(root, c) /\ w.hops = Range(c) /\ w.lost = FALSE BY DEF WalkOf
  <2>2. \A f : <<JsonOf[f]>> = <<x>> <=> JsonOf[f] = x OBVIOUS
  <2>3. named = Named(c) BY <2>1, <2>2 DEF Fits
  <2>4. <<x>> # <<>> OBVIOUS
  <2>5. Hop(t, w, <<x>>) = IF named = {} THEN {Lost}
                           ELSE {[at |-> ElemOf[f], hops |-> w.hops \cup {f}, lost |-> FALSE] : f \in named}
    <3> HIDE DEF w
    <3> QED BY <2>1, <2>4 DEF Hop
  <2> HIDE DEF w, named, Named
  <2>6. Hop(t, w, <<x>>) = IF Named(c) = {} THEN {Lost} ELSE {Grown(c, f) : f \in Named(c)} BY <2>1, <2>3, <2>5
  <2> QED BY <2>6 DEF w
<1>4. \A c : Named(c) = {} <=> Stuck(t, root, c, x) BY DEF Stuck
<1>a. ChainsExtend(t, root, names, x) BY ChainsAppend
<1>5. ASSUME NEW c \in Chains(t, root, names), NEW f \in Named(c)
      PROVE  Append(c, f) \in Chains(t, root, more) /\ WalkOf(root, Append(c, f)) = Grown(c, f)
  BY <1>a DEF ChainsExtend, WalkOf
<1>6. ASSUME NEW d \in Chains(t, root, more)
      PROVE  \E c \in Chains(t, root, names) : \E f \in Named(c) : WalkOf(root, d) = Grown(c, f)
  <2>1. PICK c \in Chains(t, root, names) : \E f \in ColumnFields(t) : Fits(f, x, EndOf(root, c)) /\ d = Append(c, f)
    BY <1>a DEF ChainsExtend
  <2>2. PICK f \in Named(c) : d = Append(c, f) BY <2>1
  <2> QED BY <1>5, <2>2
<1>7. DeadEnd(t, root, more) <=>
    DeadEnd(t, root, names) \/ \E c \in Chains(t, root, names) : Stuck(t, root, c, x) BY DeadEndAppend
<1>8. \A w : w \in WalksOf(t, root, names) <=>
    (w = Lost /\ DeadEnd(t, root, names)) \/ \E c \in Chains(t, root, names) : w = WalkOf(root, c)
  BY DEF WalksOf
<1>9. \A w : w \in WalksOf(t, root, more) <=>
    (w = Lost /\ DeadEnd(t, root, more)) \/ \E c \in Chains(t, root, more) : w = WalkOf(root, c)
  BY DEF WalksOf
<1> HIDE DEF Named, Grown, more
<1> DEFINE hopped == UNION {Hop(t, w, <<x>>) : w \in WalksOf(t, root, names)}
<1>10. ASSUME NEW v \in hopped PROVE v \in WalksOf(t, root, more)
  <2>1. PICK w \in WalksOf(t, root, names) : v \in Hop(t, w, <<x>>) BY <1>10
  <2>2. CASE w = Lost /\ DeadEnd(t, root, names) BY <1>2, <1>7, <1>9, <2>1, <2>2
  <2>3. ASSUME NEW c \in Chains(t, root, names), w = WalkOf(root, c) PROVE v \in WalksOf(t, root, more)
    <3>1. CASE Named(c) = {} BY <1>3, <1>4, <1>7, <1>9, <2>1, <2>3, <3>1
    <3>2. CASE Named(c) # {}
      <4>1. PICK f \in Named(c) : v = Grown(c, f) BY <1>3, <2>1, <2>3, <3>2
      <4> QED BY <1>5, <1>9, <4>1
    <3> QED BY <3>1, <3>2
  <2> QED BY <1>8, <2>2, <2>3
<1>11. ASSUME NEW v \in WalksOf(t, root, more) PROVE v \in hopped
  <2>1. CASE v = Lost /\ DeadEnd(t, root, names) BY <1>2, <1>8, <2>1
  <2>2. ASSUME NEW c \in Chains(t, root, names), v = Lost, Stuck(t, root, c, x)
      PROVE v \in hopped BY <1>3, <1>4, <1>8, <2>2
  <2>3. ASSUME NEW d \in Chains(t, root, more), v = WalkOf(root, d) PROVE v \in hopped
    <3>1. PICK c \in Chains(t, root, names) : \E f \in Named(c) : v = Grown(c, f) BY <1>6, <2>3
    <3>2. v \in Hop(t, WalkOf(root, c), <<x>>) BY <1>3, <3>1
    <3> QED BY <1>8, <3>2
  <2> QED BY <1>7, <1>9, <2>1, <2>2, <2>3
<1>12. hopped = WalksOf(t, root, more) BY <1>10, <1>11
<1> QED BY <1>12 DEF more

\* Before any name there is the walk that has not begun.
LEMMA WalksBegin == ASSUME NEW t, NEW root PROVE WalksOf(t, root, <<>>) = {Start(root)}
<1>1. Chains(t, root, <<>>) = {<<>>}
  <2>1. DOMAIN <<>> = {} OBVIOUS
  <2>2. \A c : c \in Chains(t, root, <<>>) <=> c \in [{} -> ColumnFields(t)] BY <2>1 DEF Chains
  <2>3. <<>> \in [{} -> ColumnFields(t)] OBVIOUS
  <2>4. \A c \in [{} -> ColumnFields(t)] : c = <<>> OBVIOUS
  <2> QED BY <2>2, <2>3, <2>4
<1>2. ~DeadEnd(t, root, <<>>) BY DEF DeadEnd
<1>3. WalkOf(root, <<>>) = Start(root)
  <2>1. Range(<<>>) = {} BY DEF Range
  <2> QED BY <2>1 DEF WalkOf, Start, EndOf
<1> QED BY <1>1, <1>2, <1>3 DEF WalksOf

\* The names of a path grow by the name at each place that has one.
NamesStep(path, g) ==
  g = [i \in 0..Len(path) |->
         IF i = 0 THEN <<>>
         ELSE IF path[i] \in {Dot, Bracket} THEN g[i - 1]
         ELSE Append(g[i - 1], path[i])]
LEMMA NamesGrow ==
  ASSUME NEW path, Written(path)
  PROVE  \E g : /\ NamesOf(path) = g[Len(path)]
                /\ g[0] = <<>>
                /\ \A i \in 0..Len(path) : g[i] \in Seq(ToSet(path))
                /\ \A i \in 1..Len(path) :
                     g[i] = IF path[i] \in {Dot, Bracket} THEN g[i - 1] ELSE Append(g[i - 1], path[i])
<1> DEFINE n == Len(path)
           X == ToSet(path)
           T == Seq(X)
           step == [p \in (1..n) \X T |-> IF path[p[1]] \in {Dot, Bracket} THEN p[2] ELSE Append(p[2], path[p[1]])]
           g == CHOOSE g : NamesStep(path, g)
<1>1. n \in Nat /\ \A i \in 1..n : path[i] \in X BY DEF Written
<1> HIDE DEF X
<1>2. step \in [(1..n) \X T -> T]
  <2> SUFFICES ASSUME NEW i \in 1..n, NEW s \in T
               PROVE  (IF path[i] \in {Dot, Bracket} THEN s ELSE Append(s, path[i])) \in T
    OBVIOUS
  <2> QED BY <1>1
<1>3. \E f : NamesStep(path, f)
  <2>1. PICK f \in [0..n -> T] : Recursion(f, n, <<>>, step)
    <3> HIDE DEF step
    <3>1. <<>> \in T OBVIOUS
    <3> HIDE DEF T
    <3> QED BY <1>1, <1>2, <3>1, RecursionExists
  <2>2. f = [i \in 0..n |-> IF i = 0 THEN <<>> ELSE step[<<i, f[i - 1]>>]] BY <2>1 DEF Recursion
  <2>3. ASSUME NEW i \in 0..n, i # 0
        PROVE  step[<<i, f[i - 1]>>] = IF path[i] \in {Dot, Bracket} THEN f[i - 1] ELSE Append(f[i - 1], path[i])
    <3>1. i \in 1..n /\ i - 1 \in 0..n BY <1>1, <2>3
    <3>2. f[i - 1] \in T BY <2>1, <3>1
    <3> HIDE DEF T
    <3> QED BY <3>1, <3>2
  <2> HIDE DEF step
  <2>4. NamesStep(path, f) BY <2>2, <2>3 DEF NamesStep
  <2> QED BY <2>4
<1>4. NamesStep(path, g) BY <1>3
<1>5. NamesOf(path) = g[n] BY DEF NamesOf, NamesStep
<1> HIDE DEF g
<1>a. ASSUME NEW v, NamesStep(path, v), NEW i \in 0..n
      PROVE  v[i] = IF i = 0 THEN <<>>
                    ELSE IF path[i] \in {Dot, Bracket} THEN v[i - 1] ELSE Append(v[i - 1], path[i])
  BY <1>a DEF NamesStep
<1>6. /\ g[0] = <<>>
      /\ \A i \in 1..n : g[i] = IF path[i] \in {Dot, Bracket} THEN g[i - 1] ELSE Append(g[i - 1], path[i])
  <2>1. 0 \in 0..n /\ \A i \in 1..n : i \in 0..n /\ i # 0 BY <1>1
  <2> QED BY <1>4, <1>a, <2>1
<1> DEFINE G == {i \in Nat : i <= n => g[i] \in T}
<1>7. 0 \in G
  <2>1. <<>> \in T OBVIOUS
  <2> HIDE DEF T
  <2> QED BY <1>6, <2>1
<1>8. ASSUME NEW i \in Nat, i \in G PROVE i + 1 \in G
  <2>1. SUFFICES ASSUME i + 1 <= n PROVE g[i + 1] \in T OBVIOUS
  <2>2. i + 1 \in 1..n /\ g[i] \in T /\ (i + 1) - 1 = i BY <1>1, <1>8, <2>1
  <2>3. g[i + 1] = IF path[i + 1] \in {Dot, Bracket} THEN g[i] ELSE Append(g[i], path[i + 1]) BY <1>6, <2>2
  <2>4. Append(g[i], path[i + 1]) \in T BY <1>1, <2>2
  <2> QED BY <2>2, <2>3, <2>4
<1> HIDE DEF G, T
<1>9. Nat \subseteq G BY <1>7, <1>8, Induction
<1>10. \A i \in 0..n : g[i] \in T BY <1>1, <1>9 DEF G
<1> QED BY <1>5, <1>6, <1>10 DEF T, X

\* The code's walk of a column over its segments finds the walks of its names.
LEMMA WalksAre ==
  ASSUME NEW t, NEW column, Written(column.path)
  PROVE  Walks(t, column) = WalksOf(t, column.root, NamesOf(column.path))
<1>r. PICK root : root = column.root OBVIOUS
<1>p. PICK path : path = column.path OBVIOUS
<1> USE <1>r, <1>p
<1> DEFINE n == Len(path)
           Step(i, before) ==
             IF SegmentBegins(path, i) THEN UNION {Hop(t, w, SegmentAt(path, i)) : w \in before} ELSE before
           Walk(v) == v = [i \in 0..(n + 1) |->
                             IF i = 0 THEN {Start(root)}
                             ELSE IF SegmentBegins(path, i) THEN UNION {Hop(t, w, SegmentAt(path, i)) : w \in v[i - 1]}
                             ELSE v[i - 1]]
           w1 == CHOOSE v : Walk(v)
<1>0. n \in Nat BY DEF Written
<1>1. PICK g : /\ NamesOf(path) = g[n]
               /\ g[0] = <<>>
               /\ \A i \in 0..n : g[i] \in Seq(ToSet(path))
               /\ \A i \in 1..n :
                    g[i] = IF path[i] \in {Dot, Bracket} THEN g[i - 1] ELSE Append(g[i - 1], path[i])
  BY NamesGrow
<1> DEFINE h(i) == IF i <= n THEN g[i] ELSE g[n]
           w0 == [i \in 0..(n + 1) |-> WalksOf(t, root, h(i))]
<1>2. ASSUME NEW i \in 1..(n + 1) PROVE WalksOf(t, root, h(i)) = Step(i, WalksOf(t, root, h(i - 1)))
  <2>1. i - 1 \in 0..n /\ h(i - 1) = g[i - 1] /\ g[i - 1] \in Seq(ToSet(path)) BY <1>0, <1>1
  <2>2. CASE i <= n /\ path[i] \notin {Dot, Bracket}
    <3>1. SegmentBegins(path, i) /\ SegmentAt(path, i) = <<path[i]>> BY <2>2, SegmentIs
    <3>2. i \in 1..n /\ path[i] \in ToSet(path) BY <1>0, <2>2 DEF Written
    <3>3. h(i) = Append(g[i - 1], path[i]) BY <1>1, <2>2, <3>2
    <3>4. UNION {Hop(t, w, <<path[i]>>) : w \in WalksOf(t, root, g[i - 1])} = WalksOf(t, root, Append(g[i - 1], path[i]))
      <4> DEFINE before == g[i - 1]
                 name == path[i]
                 X == ToSet(path)
      <4>1. before \in Seq(X) /\ name \in X BY <2>1, <3>2
      <4> HIDE DEF before, name, X
      <4>2. UNION {Hop(t, w, <<name>>) : w \in WalksOf(t, root, before)} = WalksOf(t, root, Append(before, name))
        BY <4>1, WalksHop
      <4> QED BY <4>2 DEF before, name
    <3> HIDE DEF h
    <3> QED BY <2>1, <3>1, <3>3, <3>4
  <2>3. CASE ~(i <= n /\ path[i] \notin {Dot, Bracket})
    <3>1. SegmentAt(path, i) = <<>> BY <2>3, SegmentIs
    <3>2. h(i) = g[i - 1] BY <1>0, <1>1, <2>1, <2>3
    <3>3. UNION {Hop(t, w, <<>>) : w \in WalksOf(t, root, g[i - 1])} = WalksOf(t, root, g[i - 1])
      <4>1. \A w : Hop(t, w, <<>>) = {w} BY DEF Hop
      <4> QED BY <4>1
    <3> HIDE DEF h
    <3> QED BY <2>1, <3>1, <3>2, <3>3
  <2> QED BY <2>2, <2>3
<1>3. WalksOf(t, root, h(0)) = {Start(root)} BY <1>0, <1>1, WalksBegin
<1> HIDE DEF h
<1>4. Walk(w0)
  <2>1. ASSUME NEW i \in 0..(n + 1) PROVE w0[i] = IF i = 0 THEN {Start(root)} ELSE Step(i, w0[i - 1])
    <3>1. CASE i = 0 BY <1>3, <3>1
    <3>2. CASE i # 0
      <4>1. i \in 1..(n + 1) /\ i - 1 \in 0..(n + 1) BY <1>0, <3>2
      <4>2. w0[i] = WalksOf(t, root, h(i)) /\ w0[i - 1] = WalksOf(t, root, h(i - 1)) BY <4>1
      <4>3. WalksOf(t, root, h(i)) = Step(i, WalksOf(t, root, h(i - 1))) BY <1>2, <4>1
      <4> HIDE DEF w0
      <4> QED BY <3>2, <4>2, <4>3
    <3> QED BY <3>1, <3>2
  <2> QED BY <2>1
<1>5. Walk(w1)
  <2> HIDE DEF Walk, w0
  <2> QED BY <1>4
<1>6. Walks(t, column) = w1[n + 1] BY DEF Walks
<1>7. ASSUME NEW v, Walk(v), NEW i \in 0..(n + 1) PROVE v[i] = IF i = 0 THEN {Start(root)} ELSE Step(i, v[i - 1])
  BY <1>7
<1> HIDE DEF Walk, w1, w0, Step
<1> DEFINE G == {i \in Nat : i \in 0..(n + 1) => w0[i] = w1[i]}
<1>8. 0 \in G
  <2>1. 0 \in 0..(n + 1) BY <1>0
  <2> QED BY <1>4, <1>5, <1>7, <2>1
<1>9. ASSUME NEW i \in Nat, i \in G PROVE i + 1 \in G
  <2>1. SUFFICES ASSUME i + 1 \in 0..(n + 1) PROVE w0[i + 1] = w1[i + 1] OBVIOUS
  <2>2. i \in 0..(n + 1) /\ i + 1 # 0 /\ (i + 1) - 1 = i BY <1>0, <2>1
  <2>3. w0[i] = w1[i] BY <1>9, <2>2
  <2>4. w0[i + 1] = Step(i + 1, w0[i]) BY <1>4, <1>7, <2>1, <2>2
  <2>5. w1[i + 1] = Step(i + 1, w1[i]) BY <1>5, <1>7, <2>1, <2>2
  <2> QED BY <2>3, <2>4, <2>5
<1> HIDE DEF G
<1>10. n + 1 \in G BY <1>0, <1>8, <1>9, Induction
<1>11. w0[n + 1] = w1[n + 1] BY <1>0, <1>10 DEF G
<1>12. h(n + 1) = g[n] BY <1>0 DEF h
<1> QED BY <1>0, <1>1, <1>6, <1>11, <1>12 DEF w0

\* What the walks of a column show are its readings.
LEMMA ColumnIs ==
  ASSUME NEW t \in Commits, NEW column \in t.columns
  PROVE  /\ \A w \in Walks(t, column) : w.hops \in ReadingsOf(t, column)
         /\ \A shown \in ReadingsOf(t, column) : \E w \in Walks(t, column) : w.hops = shown
<1> DEFINE root == column.root
           names == NamesOf(column.path)
<1>1. Walks(t, column) = WalksOf(t, root, names)
  <2>1. Written(column.path) BY PathsAssumption DEF Written
  <2> QED BY <2>1, WalksAre
<1> HIDE DEF names
<1>2. \A c : WalkOf(root, c).hops = Range(c) BY DEF WalkOf
<1>3. Lost.hops = {} BY DEF Lost
<1>4. \A w : w \in WalksOf(t, root, names) <=>
    (w = Lost /\ DeadEnd(t, root, names)) \/ \E c \in Chains(t, root, names) : w = WalkOf(root, c)
  BY DEF WalksOf
<1>5. \A s : s \in ReadingsOf(t, column) <=>
    (s = {} /\ DeadEnd(t, root, names)) \/ \E c \in Chains(t, root, names) : s = Range(c)
  BY DEF ReadingsOf, names
<1>6. \A w \in Walks(t, column) : w.hops \in ReadingsOf(t, column) BY <1>1, <1>2, <1>3, <1>4, <1>5
<1>7. \A shown \in ReadingsOf(t, column) : \E w \in Walks(t, column) : w.hops = shown BY <1>1, <1>2, <1>3, <1>4, <1>5
<1> QED BY <1>6, <1>7 DEF names

\* A reading shows fields of the schema.
LEMMA ReadingsShowFields ==
  ASSUME NEW t \in Commits \cup {EmptyTree}, NEW shown \in Readings(t)
  PROVE  shown \subseteq SchemaFields(t)
<1>1. ASSUME NEW column \in t.columns, NEW s \in ReadingsOf(t, column) PROVE s \subseteq SchemaFields(t)
  <2> DEFINE root == column.root
           names == NamesOf(column.path)
  <2>1. names \in Seq(ToSet(column.path))
    <3>1. EmptyTree.columns = {} BY DEF EmptyTree
    <3>2. t # EmptyTree
      <4> HIDE DEF EmptyTree
      <4> QED BY <3>1
    <3>3. Written(column.path) BY <3>2, PathsAssumption DEF Written
    <3>4. Len(column.path) \in 0..Len(column.path) BY <3>3 DEF Written
    <3> QED BY <3>3, <3>4, NamesGrow
  <2> HIDE DEF names
  <2>2. \A c \in Chains(t, root, names) : Range(c) \subseteq SchemaFields(t) BY <2>1, ChainIsSequence DEF ColumnFields
  <2> QED BY <1>1, <2>2 DEF ReadingsOf, names
<1>2. PICK r \in [t.columns -> UNION {ReadingsOf(t, column) : column \in t.columns}] :
         /\ \A column \in t.columns : r[column] \in ReadingsOf(t, column)
         /\ shown = UNION {r[column] : column \in t.columns}
  BY DEF Readings
<1> QED BY <1>1, <1>2

\* Whatever the map order, what a run takes from the columns is a reading of its
\* commit, and every reading can be what it takes.
THEOREM DisplaysAreReadings ==
  ASSUME NEW t \in Commits
  PROVE  Displays(t) = {KeysShown(shown) : shown \in Readings(t)}
<1> DEFINE C == t.columns
           R(column) == ReadingsOf(t, column)
           W(column) == Walks(t, column)
           Picks == {p \in [C -> UNION {W(column) : column \in C}] : \A column \in C : p[column] \in W(column)}
           Reads == {r \in [C -> UNION {R(column) : column \in C}] : \A column \in C : r[column] \in R(column)}
           Keys(p) == UNION {{KeyOf[f] : f \in p[column].hops} : column \in C}
           Fs(r) == UNION {r[column] : column \in C}
<1>1. Displays(t) = {Keys(p) : p \in Picks} BY DEF Displays
<1>2. Readings(t) = {Fs(r) : r \in Reads} BY DEF Readings
<1>3. ASSUME NEW column \in C
      PROVE  (\A w \in W(column) : w.hops \in R(column)) /\ (\A s \in R(column) : \E w \in W(column) : w.hops = s)
  BY ColumnIs
<1> HIDE DEF R, W
<1>4. ASSUME NEW p \in Picks PROVE \E r \in Reads : Keys(p) = KeysShown(Fs(r))
  <2> DEFINE r == [column \in C |-> p[column].hops]
  <2>1. \A column \in C : r[column] \in R(column) BY <1>3
  <2>2. r \in Reads BY <2>1
  <2>3. \A column \in C : r[column] = p[column].hops OBVIOUS
  <2> HIDE DEF r
  <2>4. Keys(p) = KeysShown(Fs(r)) BY <2>3 DEF KeysShown
  <2> QED BY <2>2, <2>4
<1>5. ASSUME NEW r \in Reads PROVE \E p \in Picks : Keys(p) = KeysShown(Fs(r))
  <2> DEFINE p == [column \in C |-> CHOOSE w \in W(column) : w.hops = r[column]]
  <2>1. ASSUME NEW column \in C PROVE p[column] \in W(column) /\ p[column].hops = r[column]
    <3>1. \E w \in W(column) : w.hops = r[column] BY <1>3
    <3>2. p[column] = CHOOSE w \in W(column) : w.hops = r[column] OBVIOUS
    <3> QED BY <3>1, <3>2
  <2>2. p \in Picks
    <3>1. p = [column \in C |-> p[column]] OBVIOUS
    <3> HIDE DEF p
    <3> QED BY <2>1, <3>1
  <2> HIDE DEF p
  <2>3. Keys(p) = KeysShown(Fs(r)) BY <2>1 DEF KeysShown
  <2> QED BY <2>2, <2>3
<1> HIDE DEF Picks, Reads, Keys, Fs, C
<1> QED BY <1>1, <1>2, <1>4, <1>5

\* No struct gives one json name to two fields.
NamesAreDistinct(t) ==
  \A f, g \in ColumnFields(t) : StructOf[f] = StructOf[g] /\ JsonOf[f] = JsonOf[g] => f = g

\* Distinct names are spelled by one chain at most, and by none where there is a
\* dead end.
OneWay(t, root, names) ==
  /\ \A c, d \in Chains(t, root, names) : c = d
  /\ DeadEnd(t, root, names) => Chains(t, root, names) = {}
LEMMA OneChain ==
  ASSUME NEW t, NEW root, NamesAreDistinct(t), NEW X, NEW names \in Seq(X)
  PROVE  OneWay(t, root, names)
<1> DEFINE G == {s \in Seq(X) : OneWay(t, root, s)}
<1>1. <<>> \in G
  <2>1. DOMAIN <<>> = {} OBVIOUS
  <2>2. \A c, d \in Chains(t, root, <<>>) : c = d BY <2>1 DEF Chains
  <2>3. ~DeadEnd(t, root, <<>>) BY <2>1 DEF DeadEnd
  <2> QED BY <2>2, <2>3 DEF OneWay
<1>2. ASSUME NEW r \in Seq(X), NEW x \in X, OneWay(t, root, r) PROVE OneWay(t, root, Append(r, x))
  <2> DEFINE s == Append(r, x)
  <2>1. /\ ChainsExtend(t, root, r, x)
        /\ DeadEnd(t, root, s) <=> DeadEnd(t, root, r) \/ \E c \in Chains(t, root, r) : Stuck(t, root, c, x)
    BY ChainsAppend, DeadEndAppend
  <2> HIDE DEF s
  <2>2. \A d \in Chains(t, root, s) : \E c \in Chains(t, root, r) :
      \E f \in ColumnFields(t) : Fits(f, x, EndOf(root, c)) /\ d = Append(c, f)
    BY <2>1 DEF ChainsExtend, s
  <2>3. \A c, d \in Chains(t, root, s) : c = d
    <3> TAKE c, d \in Chains(t, root, s)
    <3>1. PICK b \in Chains(t, root, r), f \in ColumnFields(t) : Fits(f, x, EndOf(root, b)) /\ c = Append(b, f) BY <2>2
    <3>2. PICK e \in Chains(t, root, r), g \in ColumnFields(t) : Fits(g, x, EndOf(root, e)) /\ d = Append(e, g) BY <2>2
    <3>3. b = e BY <1>2 DEF OneWay
    <3>4. f = g BY <3>1, <3>2, <3>3 DEF Fits, NamesAreDistinct
    <3> QED BY <3>1, <3>2, <3>3, <3>4
  <2>4. ASSUME DeadEnd(t, root, s), NEW d \in Chains(t, root, s) PROVE FALSE
    <3>1. PICK b \in Chains(t, root, r), f \in ColumnFields(t) : Fits(f, x, EndOf(root, b)) BY <2>2
    <3>2. PICK c \in Chains(t, root, r) : Stuck(t, root, c, x) BY <1>2, <2>1, <2>4, <3>1 DEF OneWay
    <3>3. b = c BY <1>2 DEF OneWay
    <3> QED BY <3>1, <3>2, <3>3 DEF Stuck
  <2>5. OneWay(t, root, s) BY <2>3, <2>4 DEF OneWay
  <2> QED BY <2>5 DEF s
<1>3. \A r \in Seq(X), x \in X : r \in G => Append(r, x) \in G
  <2> SUFFICES ASSUME NEW r \in Seq(X), NEW x \in X, r \in G
      PROVE Append(r, x) \in Seq(X) /\ OneWay(t, root, Append(r, x))
    OBVIOUS
  <2> QED BY <1>2, AppendIs
<1> HIDE DEF G
<1>4. Seq(X) \subseteq G BY <1>1, <1>3, InductionOnSequences
<1> QED BY <1>4 DEF G

\* Where names are distinct a commit has one reading at most.
LEMMA OneReading ==
  ASSUME NEW t \in Commits, NamesAreDistinct(t), NEW shown \in Readings(t), NEW other \in Readings(t)
  PROVE  shown = other
<1>1. ASSUME NEW column \in t.columns,
             NEW a \in ReadingsOf(t, column), NEW b \in ReadingsOf(t, column)
      PROVE  a = b
  <2> DEFINE root == column.root
           names == NamesOf(column.path)
  <2>1. names \in Seq(ToSet(column.path))
    <3>1. Written(column.path) BY PathsAssumption DEF Written
    <3>2. Len(column.path) \in 0..Len(column.path) BY <3>1 DEF Written
    <3> QED BY <3>1, <3>2, NamesGrow
  <2> HIDE DEF names
  <2>2. OneWay(t, root, names) BY <2>1, OneChain
  <2>3. \A s \in ReadingsOf(t, column) :
      (s = {} /\ DeadEnd(t, root, names)) \/ \E c \in Chains(t, root, names) : s = Range(c)
    BY DEF ReadingsOf, names
  <2>4. a \in ReadingsOf(t, column) /\ b \in ReadingsOf(t, column) BY <1>1 DEF names
  <2> QED BY <2>2, <2>3, <2>4 DEF OneWay
<1> DEFINE Reads == {r \in [t.columns -> UNION {ReadingsOf(t, column) : column \in t.columns}] :
                       \A column \in t.columns : r[column] \in ReadingsOf(t, column)}
<1>2. PICK r \in Reads : shown = UNION {r[column] : column \in t.columns} BY DEF Readings
<1>3. PICK q \in Reads : other = UNION {q[column] : column \in t.columns} BY DEF Readings
<1>4. \A column \in t.columns : r[column] = q[column] BY <1>1, <1>2, <1>3
<1> QED BY <1>2, <1>3, <1>4

\* The map order has no say in what columns display where no struct gives one json
\* name to two fields: only there can the lookup of a name in a range over a map
\* find one field or another (crdfields.go:352).
THEOREM DisplaysAreDetermined ==
  ASSUME NEW t \in Commits, NamesAreDistinct(t), NEW shown \in Displays(t), NEW other \in Displays(t)
  PROVE  shown = other
<1>1. PICK fields \in Readings(t) : shown = KeysShown(fields) BY DisplaysAreReadings
<1>2. PICK others \in Readings(t) : other = KeysShown(others) BY DisplaysAreReadings
<1> QED BY <1>1, <1>2, OneReading

\* What a column shows is a key of a field.
LEMMA DisplaysKeys ==
  ASSUME NEW t \in Commits, NEW shown \in Displays(t)
  PROVE  shown \subseteq AllKeys
<1>1. PICK fields \in Readings(t) : shown = KeysShown(fields) BY DisplaysAreReadings
<1>2. fields \subseteq SchemaFields(t) BY ReadingsShowFields
<1>3. SchemaFields(t) \subseteq Fields BY CommitsAssumption DEF SchemaFields
<1> QED BY <1>1, <1>2, <1>3 DEF KeysShown, AllKeys

-----------------------------------------------------------------------------
(* What a run decides *)

\* Where no struct is declared twice, a served field has its key for itself.
LEMMA KeysAreDistinct ==
  ASSUME NEW t \in Commits \cup {EmptyTree}, ~Clash(t), NEW f \in SchemaFields(t), NEW g \in SchemaFields(t),
         KeyOf[f] = KeyOf[g]
  PROVE  f = g
<1>1. f \in Fields /\ g \in Fields BY CommitsAssumption DEF SchemaFields, EmptyTree
<1> QED BY <1>1, KeysAssumption DEF Clash

\* A field has a read of Go code exactly when the commit reads it.
LEMMA ReadsAreGoReads ==
  ASSUME NEW t, NEW f
  PROVE  GoReads(Entry(t, f)) = 0 <=> f \notin t.read
<1>1. TagCredit(f) \in 0..1 BY DEF TagCredit
<1> QED BY <1>1 DEF GoReads, Entry

\* The decision a run takes on what it measured, in the reading it took, is about
\* the gaps of that reading.
LEMMA DecisionIsExact ==
  ASSUME NEW t \in Commits, ~Clash(t), NEW shown \in Readings(t),
         NEW o, o = Decide(Measurement(t), KeysShown(shown), Verdicts(t))
  PROVE  LET gaps == {KeyOf[f] : f \in Serves(t) \ (t.read \cup shown)}
         IN  /\ OK(o) <=> /\ gaps = Verdicts(t)
                          /\ Cardinality({KeyOf[f] : f \in Serves(t)}) >= MinServed
             /\ o.blocking = gaps \ Verdicts(t)
             /\ o.stale \cup o.satisfied = Verdicts(t) \ gaps
<1> DEFINE judged == {d \in Measurement(t) : Judged(d.field)}
           unconsumed == {KeyOf[d.field] : d \in {d \in judged : GoReads(d) = 0}}
           gaps == {KeyOf[f] : f \in Serves(t) \ (t.read \cup shown)}
           serves == {KeyOf[f] : f \in Serves(t)}
<1>1. judged = {Entry(t, f) : f \in Serves(t)} BY DEF Measurement, Entry, Judged, Serves
<1>2. \A f : Entry(t, f).field = f BY DEF Entry
<1>3. {KeyOf[d.field] : d \in judged} = serves
  <2> HIDE DEF judged
  <2>1. ASSUME NEW d \in judged PROVE KeyOf[d.field] \in serves BY <1>1, <1>2
  <2>2. ASSUME NEW f \in Serves(t) PROVE KeyOf[f] \in {KeyOf[d.field] : d \in judged}
    <3>1. Entry(t, f) \in judged BY <1>1
    <3> QED BY <1>2, <3>1
  <2> QED BY <2>1, <2>2
<1>4. unconsumed = {KeyOf[f] : f \in Serves(t) \ t.read}
  <2> DEFINE unread == {d \in judged : GoReads(d) = 0}
  <2>1. unread = {Entry(t, f) : f \in Serves(t) \ t.read} BY <1>1, ReadsAreGoReads
  <2> HIDE DEF unread
  <2>2. ASSUME NEW d \in unread PROVE KeyOf[d.field] \in {KeyOf[f] : f \in Serves(t) \ t.read} BY <1>2, <2>1
  <2>3. ASSUME NEW f \in Serves(t) \ t.read PROVE KeyOf[f] \in {KeyOf[d.field] : d \in unread}
    <3>1. Entry(t, f) \in unread BY <2>1
    <3> QED BY <1>2, <3>1
  <2>4. {KeyOf[d.field] : d \in unread} = {KeyOf[f] : f \in Serves(t) \ t.read} BY <2>2, <2>3
  <2> QED BY <2>4 DEF unread
<1>5. Serves(t) \subseteq SchemaFields(t) BY DEF Serves, SchemaFields
<1>6. shown \subseteq SchemaFields(t) BY ReadingsShowFields
<1>7. unconsumed \ KeysShown(shown) = gaps
  <2>1. ASSUME NEW f \in Serves(t), KeyOf[f] \in KeysShown(shown) PROVE f \in shown
    BY <1>5, <1>6, <2>1, KeysAreDistinct DEF KeysShown
  <2> QED BY <1>4, <2>1 DEF KeysShown
<1>8. gaps \subseteq serves OBVIOUS
<1> DEFINE low == Cardinality(serves) < MinServed
<1>9. o = [served |-> serves, stale |-> Verdicts(t) \ serves,
           satisfied |-> (Verdicts(t) \cap serves) \ gaps,
           blocking |-> gaps \ Verdicts(t), belowFloor |-> low]
  BY <1>3, <1>7 DEF Decide
<1>10. OK(o) <=> gaps = Verdicts(t) /\ ~low
  <2>1. o.stale = {} <=> Verdicts(t) \subseteq serves BY <1>9
  <2>2. o.satisfied = {} <=> Verdicts(t) \cap serves \subseteq gaps BY <1>9
  <2>3. o.blocking = {} <=> gaps \subseteq Verdicts(t) BY <1>9
  <2>4. o.belowFloor = low
    <3> DEFINE stale == Verdicts(t) \ serves
               satisfied == (Verdicts(t) \cap serves) \ gaps
               blocking == gaps \ Verdicts(t)
    <3>1. o = [served |-> serves, stale |-> stale, satisfied |-> satisfied,
               blocking |-> blocking, belowFloor |-> low] BY <1>9
    <3> HIDE DEF serves, stale, satisfied, blocking, low
    <3> QED BY <3>1
  <2> HIDE DEF gaps, serves, low
  <2> QED BY <1>8, <2>1, <2>2, <2>3, <2>4 DEF OK
<1>11. ~low <=> Cardinality(serves) >= MinServed
  <2>1. serves \subseteq {KeyOf[f] : f \in Fields} BY CommitsAssumption DEF Serves
  <2>2. IsFiniteSet(serves) BY <2>1, FS_Subset, FieldsAssumption
  <2> QED BY <2>2, FS_CardinalityType, FieldsAssumption
<1>12. o.blocking = gaps \ Verdicts(t) /\ o.stale \cup o.satisfied = Verdicts(t) \ gaps BY <1>8, <1>9
<1> QED BY <1>10, <1>11, <1>12

-----------------------------------------------------------------------------
(* The invariant *)

\* Before the first commit there is no gap, and no verdict.
LEMMA NothingHasNoGap == Gaps(EmptyTree) = {{}} /\ Verdicts(EmptyTree) = {}
<1>1. EmptyTree.columns = {} /\ Serves(EmptyTree) = {} BY DEF EmptyTree, Serves
<1>2. Verdicts(EmptyTree) = {} BY DEF Verdicts, EmptyTree
<1>3. Readings(EmptyTree) = {{}}
  <2> DEFINE R == {r \in [{} -> {}] : \A column \in {} : r[column] \in ReadingsOf(EmptyTree, column)}
  <2>1. \E r : r \in R
    <3>1. [path \in {} |-> {}] \in R OBVIOUS
    <3> QED BY <3>1
  <2>2. Readings(EmptyTree) = {UNION {r[column] : column \in {}} : r \in R} BY <1>1 DEF Readings
  <2>3. \A r : {r[column] : column \in {}} = {} OBVIOUS
  <2>4. Readings(EmptyTree) = {UNION {} : r \in R} BY <2>2, <2>3
  <2>5. UNION {} = {} OBVIOUS
  <2> HIDE DEF R
  <2> QED BY <2>1, <2>4, <2>5
<1>4. Gaps(EmptyTree) = {{}} BY <1>1, <1>3 DEF Gaps
<1> QED BY <1>2, <1>4

\* The invariant holds before the first run.
LEMMA InvInit == Init => Inv
<1> SUFFICES ASSUME Init PROVE Inv OBVIOUS
<1>1. Gaps(EmptyTree) = {{}} /\ Verdicts(EmptyTree) = {} BY NothingHasNoGap
<1>2. ~Clash(EmptyTree) BY DEF Clash, SchemaFields, EmptyTree
<1>3. LandedKept BY <1>1, <1>2 DEF Init, LandedKept
<1>4. Measured /\ Decided /\ VerdictIsExact BY DEF Init, Measured, Decided, VerdictIsExact, NoCode
<1> QED BY <1>3, <1>4 DEF Init, Inv

\* No step but the decision and the next commit touches what was decided.
LEMMA InvStep ==
  ASSUME Inv, [Next]_vars
  PROVE  Inv'
<1> USE DEF Inv
<1>1. CASE Analyze
  BY <1>1 DEF Analyze, Measured, Measurement, Entry, Decided, VerdictIsExact, LandedKept
<1>2. CASE AnalyzeFails \/ SchemaFails \/ ExemptionsFail
  <2> USE <1>2 DEF AnalyzeFails, SchemaFails, ExemptionsFail, Exit
  <2>1. code' \in {1, 2} /\ pc' = "done" /\ pc # "done" /\ UNCHANGED <<commit, landed, out>> OBVIOUS
  <2>2. Measured' BY <2>1 DEF Measured
  <2>3. Decided' BY <2>1 DEF Decided, NoCode
  <2>4. VerdictIsExact' BY <2>1 DEF VerdictIsExact, Measured
  <2> QED BY <2>1, <2>2, <2>3, <2>4 DEF LandedKept
<1>3. CASE LoadSchema
  <2> USE <1>3 DEF LoadSchema
  <2>1. \E shown \in Readings(commit) : displayed' = KeysShown(shown) BY DisplaysAreReadings
  <2>2. Measured' BY <2>1 DEF Measured, NoCode
  <2> QED BY <2>2 DEF Measured, Decided, VerdictIsExact, LandedKept
<1>4. CASE LoadExemptions
  <2> USE <1>4 DEF LoadExemptions
  <2>1. exempt' = Verdicts(commit) BY DEF Verdicts
  <2>2. Measured' BY <2>1 DEF Measured
  <2> QED BY <2>2 DEF Measured, Decided, VerdictIsExact, LandedKept
<1>5. CASE Judge
  <2> USE <1>5 DEF Judge, Exit
  <2>1. PICK shown \in Readings(commit) : out' = Decide(Measurement(commit), KeysShown(shown), Verdicts(commit))
    BY DEF Measured
  <2>2. ~Clash(commit) BY DEF Measured
  <2>g. PICK gaps : gaps = {KeyOf[f] : f \in Serves(commit) \ (commit.read \cup shown)} OBVIOUS
  <2>3. gaps \in Gaps(commit) BY <2>g DEF Gaps
  <2>4. /\ OK(out') <=> /\ gaps = Verdicts(commit)
                        /\ Cardinality({KeyOf[f] : f \in Serves(commit)}) >= MinServed
        /\ out'.blocking = gaps \ Verdicts(commit)
        /\ out'.stale \cup out'.satisfied = Verdicts(commit) \ gaps
    <3> DEFINE o == out'
    <3>1. o = Decide(Measurement(commit), KeysShown(shown), Verdicts(commit)) BY <2>1
    <3> HIDE DEF o
    <3>2. /\ OK(o) <=> /\ gaps = Verdicts(commit)
                       /\ Cardinality({KeyOf[f] : f \in Serves(commit)}) >= MinServed
          /\ o.blocking = gaps \ Verdicts(commit)
          /\ o.stale \cup o.satisfied = Verdicts(commit) \ gaps
      BY <2>g, <2>2, <3>1, DecisionIsExact
    <3> QED BY <3>2 DEF o
  <2>5. code' = IF OK(out') THEN 0 ELSE 1 BY DEF ExitCode
  <2>6. DecidedOn(gaps)' BY <2>4, <2>5 DEF DecidedOn
  <2>7. VerdictIsExact' BY <2>3, <2>6 DEF VerdictIsExact
  <2>8. Decided' BY <2>2, <2>3, <2>4, <2>5 DEF Decided, NoCode
  <2>9. Measured' BY DEF Measured
  <2> QED BY <2>7, <2>8, <2>9 DEF LandedKept
<1>6. ASSUME NEW t \in Commits, Propose(t) PROVE Inv'
  <2> USE <1>6 DEF Propose
  <2>1. LandedKept' BY DEF LandedKept, Decided
  <2>2. Measured' /\ Decided' /\ VerdictIsExact' BY DEF Measured, Decided, VerdictIsExact, NoCode
  <2> QED BY <2>1, <2>2
<1>7. CASE UNCHANGED vars
  BY <1>7 DEF vars, Measured, Decided, VerdictIsExact, DecidedOn, LandedKept
<1> QED BY <1>1, <1>2, <1>3, <1>4, <1>5, <1>6, <1>7 DEF Next

-----------------------------------------------------------------------------
(* The theorems *)

\* Type correctness, of any module.
THEOREM TypeCorrect == Spec => []TypeOK
<1>1. Init => TypeOK BY DEF Init, TypeOK, NoOutcome
<1>2. ASSUME TypeOK, [Next]_vars PROVE TypeOK'
  <2> USE <1>2 DEF TypeOK
  <2>1. CASE Analyze
    <3>1. \A f \in commit.declared : f \in Fields BY CommitsAssumption
    <3>2. \A f : TagCredit(f) \in 0..1 BY DEF TagCredit
    <3>3. decls' \subseteq [field : Fields, reads : 0..2, viaReflection : 0..1]
      BY <2>1, <3>1, <3>2 DEF Analyze
    <3> QED BY <2>1, <3>3 DEF Analyze
  <2>2. CASE AnalyzeFails \/ SchemaFails \/ ExemptionsFail
    BY <2>2 DEF AnalyzeFails, SchemaFails, ExemptionsFail, Exit
  <2>3. CASE LoadSchema
    <3>1. displayed' \subseteq AllKeys BY <2>3, DisplaysKeys DEF LoadSchema
    <3> QED BY <2>3, <3>1 DEF LoadSchema
  <2>4. CASE LoadExemptions
    <3>1. \A l \in commit.lines : l.key \in AllKeys BY CommitsAssumption DEF Lines, AllKeys
    <3>2. exempt' \subseteq AllKeys BY <2>4, <3>1 DEF LoadExemptions
    <3> QED BY <2>4, <3>2 DEF LoadExemptions
  <2>5. CASE Judge
    <3>1. \A d \in decls : KeyOf[d.field] \in AllKeys BY DEF AllKeys
    <3>2. out' \in [served : SUBSET AllKeys, stale : SUBSET AllKeys, satisfied : SUBSET AllKeys,
                    blocking : SUBSET AllKeys, belowFloor : BOOLEAN]
      BY <2>5, <3>1 DEF Judge, Decide
    <3> QED BY <2>5, <3>2 DEF Judge, Exit, ExitCode
  <2>6. CASE \E t \in Commits : Propose(t)
    BY <2>6 DEF Propose, NoOutcome
  <2>7. CASE UNCHANGED vars BY <2>7 DEF vars
  <2> QED BY <1>2, <2>1, <2>2, <2>3, <2>4, <2>5, <2>6, <2>7 DEF Next
<1> QED BY <1>1, <1>2, PTL DEF Spec

\* In any module, a run that comes to a decision passes exactly the commits whose
\* verdicts are the fields nothing consumes, in the reading it took, and reports
\* what of them differs.
THEOREM VerdictsAreExact == Spec => []VerdictIsExact
<1>1. Inv => VerdictIsExact BY DEF Inv
<1> QED BY <1>1, InvInit, InvStep, PTL DEF Spec

\* A verdict that landed speaks of one field.
THEOREM VerdictsAreOfOneField == Spec => []OneVerdictOneField
<1>1. ASSUME Inv PROVE OneVerdictOneField
  <2>1. Serves(landed) \subseteq SchemaFields(landed) BY DEF Serves, SchemaFields
  <2> QED BY <1>1, <2>1, KeysAreDistinct DEF Inv, LandedKept, OneVerdictOneField
<1> QED BY <1>1, InvInit, InvStep, PTL DEF Spec

\* No gap lands under a verdict that was there before it.
THEOREM NewGapsAreDecided == Spec => NewGapIsDecided
<1>1. Inv /\ [Next]_vars => [landed' # landed =>
        ((UNION Gaps(landed')) \ (UNION Gaps(landed))) \cap Verdicts(landed) = {}]_vars
  <2> SUFFICES ASSUME Inv
               PROVE  ((UNION Gaps(landed')) \ (UNION Gaps(landed))) \cap Verdicts(landed) = {}
    OBVIOUS
  <2>1. Verdicts(landed) \in Gaps(landed) BY DEF Inv, LandedKept
  <2> QED BY <2>1
<1> QED BY <1>1, InvInit, InvStep, PTL DEF Spec, NewGapIsDecided

\* The CRD gate is a strict gate over decisions.
THEOREM CrdIsARatchet == Spec => GateImplemented
<1> DEFINE verdict == CASE code = NoCode -> "none" [] code = 0 -> "pass" [] OTHER -> "fail"
<1>1. ASSUME Init PROVE Gate!Init
  <2>1. View[commit] \in Candidates BY <1>1 DEF Init, Candidates
  <2>2. Gaps(EmptyTree) = {{}} /\ Verdicts(EmptyTree) = {} BY NothingHasNoGap
  <2>3. View[EmptyTree] = Gate!Nothing BY <2>2 DEF View, Gate!Nothing
  <2> QED BY <1>1, <2>1, <2>3 DEF Init, Gate!Init, NoCode
<1>2. ASSUME Inv, [Next]_vars PROVE [Gate!Next]_(Gate!vars)
  <2> DEFINE same == commit' = commit /\ landed' = landed
  <2>1. ASSUME same, code' = code PROVE UNCHANGED Gate!vars BY <2>1 DEF Gate!vars
  <2>2. CASE Analyze \/ LoadSchema \/ LoadExemptions
    BY <2>1, <2>2 DEF Analyze, LoadSchema, LoadExemptions
  <2>3. CASE AnalyzeFails \/ SchemaFails \/ ExemptionsFail
    <3>1. same /\ code = NoCode /\ code' \in {1, 2}
      BY <1>2, <2>3 DEF AnalyzeFails, SchemaFails, ExemptionsFail, Exit, Inv, Measured
    <3> QED BY <3>1 DEF Gate!Judge, Gate!Next, NoCode
  <2>4. CASE Judge
    <3>1. same /\ code = NoCode BY <1>2, <2>4 DEF Judge, Inv, Measured
    <3>2. code' \in {0, 1} BY <2>4 DEF Judge, Exit, ExitCode
    <3>3. code' = 0 => Verdicts(commit) \in Gaps(commit)
      BY <1>2, <2>4, <3>1, InvStep DEF Inv, Decided
    <3>4. View[commit] = [readings |-> Gaps(commit), decided |-> Verdicts(commit), strict |-> TRUE]
      BY <1>2 DEF Inv, View
    <3>5. code' = 0 => Gate!Kept(View[commit]) BY <3>3, <3>4 DEF Gate!Kept
    <3> QED BY <3>1, <3>2, <3>5 DEF Gate!Judge, Gate!Next, NoCode
  <2>5. CASE \E t \in Commits : Propose(t)
    <3>1. PICK t \in Commits : Propose(t) BY <2>5
    <3>2. View[t] \in Candidates BY DEF Candidates
    <3>3. code # NoCode /\ code' = NoCode BY <1>2, <3>1 DEF Inv, Decided, Propose
    <3> QED BY <3>1, <3>2, <3>3 DEF Propose, Gate!Propose, Gate!Next, NoCode
  <2>6. CASE UNCHANGED vars BY <2>1, <2>6 DEF vars
  <2> QED BY <1>2, <2>2, <2>3, <2>4, <2>5, <2>6 DEF Next
<1> QED BY <1>1, <1>2, InvInit, InvStep, PTL DEF Spec, GateImplemented, Gate!Spec
=============================================================================
