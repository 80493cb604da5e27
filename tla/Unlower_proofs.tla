------------------------- MODULE Unlower_proofs ------------------------------
(***************************************************************************)
(* Proofs about the unlowering map of unlower.rs.                          *)
(***************************************************************************)
EXTENDS Unlower, WellFoundedInduction, SequenceTheorems, TLAPS

USE UnlowerAssumptions

\* locs.last() exists: a non-empty set of locations has a greatest one.
\* Its reversed indices are least in the lexicographic order on Nat \X Nat,
\* which is well founded.
LEMMA LastLocIn ==
    ASSUME NEW ls, ls \subseteq Locs, ls # {}
    PROVE  /\ LastLoc(ls) \in ls
           /\ \A m \in ls : ~LocLt(LastLoc(ls), m)
<1>1. PICK b \in Nat, i \in Nat :
          \A l \in Locs : l.block <= b /\ l.statement_index <= i
  BY ShapeAssumptions
<1>. DEFINE Rev(l) == <<b - l.block, i - l.statement_index>>
            R == LexPairOrdering(OpToRel(<, Nat), OpToRel(<, Nat), Nat, Nat)
            T == {Rev(l) : l \in ls}
<1>2. IsWellFoundedOn(R, Nat \X Nat)
  BY NatLessThanWellFounded, WFLexPairOrdering
<1>3. T \subseteq Nat \X Nat /\ T # {}
  <2>1. \A l \in ls : l.block \in 0 .. b /\ l.statement_index \in 0 .. i
    BY <1>1
  <2>2. \A l \in ls : Rev(l) \in Nat \X Nat
    BY <2>1
  <2>. QED
    BY <2>2
<1>4. PICK x \in T : \A y \in T : ~(<<y, x>> \in R)
  BY <1>2, <1>3, WFMin
<1>5. PICK l \in ls : x = Rev(l)
  OBVIOUS
<1>6. \A m \in ls : ~LocLt(l, m)
  <2>. SUFFICES ASSUME NEW m \in ls, LocLt(l, m) PROVE FALSE
    OBVIOUS
  <2>0. Rev(m) \in T /\ Rev(l) \in Nat \X Nat /\ Rev(m) \in Nat \X Nat
    BY <1>3
  <2>1. l.block \in 0 .. b /\ l.statement_index \in 0 .. i
        /\ m.block \in 0 .. b /\ m.statement_index \in 0 .. i
    BY <1>1
  <2>2. <<Rev(m), Rev(l)>> \in R
    BY <2>0, <2>1 DEF LocLt, LexPairOrdering, OpToRel
  <2>. QED
    BY <1>4, <1>5, <2>0, <2>2
<1>. QED
  BY <1>5, <1>6 DEF LastLoc

\* The record_desc calls of one visit name pairwise different keys, all at
\* the location chosen for the expression: [], [Dest] and [Rvalue] for an
\* assignment; [], [Rvalue] and [Rvalue, CallArg(i)] for each zipped
\* argument i of a call; [] and [Rvalue] otherwise.
LEMMA EntriesDistinct ==
    ASSUME NEW e, NEW ls, ZipLen(e, LastLoc(ls)) \in Nat
    PROVE  LET es == Entries(e, ls)
           IN  /\ Len(es) \in Nat
               /\ \A i \in 1 .. Len(es) : es[i].key.loc = LastLoc(ls)
               /\ \A i, j \in 1 .. Len(es) : i # j => es[i].key # es[j].key
<1>. DEFINE l == LastLoc(ls)
<1>1. CASE hir.kind[e] = "Assign"
  <2>1. Entries(e, ls) = AssignEntries(e, l)
    BY <1>1 DEF Entries
  <2>. QED
    BY <2>1 DEF AssignEntries, Entry, Dest, Rvalue
<1>2. CASE hir.kind[e] = "Call"
  <2>. DEFINE Z == ZipLen(e, l)
              hd == <<Entry(l, << >>, e, "StoreIntoLocal"), Entry(l, <<Rvalue>>, e, "Expr")>>
              tl == [i \in 1 .. Z |-> Entry(l, <<Rvalue, CallArg(i - 1)>>, hir.args[e][i], "Expr")]
              S == {hd[1], hd[2]} \cup {tl[i] : i \in 1 .. Z}
  <2>1. Z \in Nat
    OBVIOUS
  <2>2. hd \in Seq(S) /\ Len(hd) = 2
    OBVIOUS
  <2>3. tl \in Seq(S) /\ Len(tl) = Z
    <3>1. tl \in [1 .. Z -> S]
      <4>1. \A i \in 1 .. Z : tl[i] \in S
        OBVIOUS
      <4>2. tl = [i \in 1 .. Z |-> tl[i]]
        OBVIOUS
      <4>. HIDE DEF tl, S
      <4>. QED
        BY <4>1, <4>2, Zenon
    <3>. QED
      BY <2>1, <3>1
  <2>4. /\ Len(hd \o tl) = 2 + Z
        /\ \A i \in 1 .. 2 + Z : (hd \o tl)[i] = IF i <= 2 THEN hd[i] ELSE tl[i - 2]
    BY <2>1, <2>2, <2>3, ConcatProperties
  <2>5. Entries(e, ls) = hd \o tl
    <3>1. Entries(e, ls) = CallEntries(e, l)
      BY <1>2 DEF Entries
    <3>. QED
      BY <3>1 DEF CallEntries
  <2>. DEFINE P(i) == IF i = 1 THEN << >>
                     ELSE IF i = 2 THEN <<Rvalue>>
                     ELSE <<Rvalue, CallArg(i - 3)>>
  <2>6. /\ hd[1].key = [loc |-> l, path |-> P(1)]
        /\ hd[2].key = [loc |-> l, path |-> P(2)]
        /\ \A i \in 3 .. 2 + Z : tl[i - 2].key = [loc |-> l, path |-> P(i)]
    BY <2>1 DEF Entry
  <2>. HIDE DEF hd, tl, Z
  <2>7. \A i, j \in 1 .. 2 + Z : i # j => P(i) # P(j)
    <3>1. ASSUME NEW i \in 1 .. 2 + Z
          PROVE  /\ Len(P(i)) = IF i = 1 THEN 0 ELSE IF i = 2 THEN 1 ELSE 2
                 /\ i >= 3 => P(i)[2].idx = i - 3
      BY <2>1 DEF CallArg
    <3>. HIDE DEF P
    <3>2. ASSUME NEW i \in 1 .. 2 + Z, NEW j \in 1 .. 2 + Z, i # j PROVE P(i) # P(j)
      <4>1. CASE i >= 3 /\ j >= 3
        <5>2. P(i)[2].idx = i - 3 /\ P(j)[2].idx = j - 3
          BY <3>1, <4>1
        <5>1. P(i)[2].idx # P(j)[2].idx
          BY <2>1, <5>2, <3>2
        <5>. QED
          BY <5>1
      <4>2. CASE i < 3 \/ j < 3
        <5>2. Len(P(i)) = IF i = 1 THEN 0 ELSE IF i = 2 THEN 1 ELSE 2
          BY <3>1
        <5>3. Len(P(j)) = IF j = 1 THEN 0 ELSE IF j = 2 THEN 1 ELSE 2
          BY <3>1
        <5>1. Len(P(i)) # Len(P(j))
          BY <2>1, <5>2, <5>3, <3>2, <4>2
        <5>. QED
          BY <5>1
      <4>. QED
        BY <2>1, <4>1, <4>2
    <3>. QED
      BY <3>2
  <2>. HIDE DEF P
  <2>8. ASSUME NEW i \in 1 .. 2 + Z PROVE (hd \o tl)[i].key = [loc |-> l, path |-> P(i)]
    <3>1. CASE i = 1
      BY <3>1, <2>4, <2>6
    <3>2. CASE i = 2
      BY <3>2, <2>4, <2>6
    <3>3. CASE i \in 3 .. 2 + Z
      <4>1. (hd \o tl)[i] = tl[i - 2]
        BY <3>3, <2>1, <2>4
      <4>. QED
        BY <3>3, <4>1, <2>6
    <3>4. i = 1 \/ i = 2 \/ i \in 3 .. 2 + Z
      BY <2>1
    <3>. QED
      BY <3>1, <3>2, <3>3, <3>4, Zenon
  <2>. DEFINE cs == hd \o tl
  <2>. HIDE DEF cs
  <2>9. /\ Len(cs) \in Nat
        /\ \A i \in 1 .. Len(cs) : cs[i].key.loc = l
        /\ \A i, j \in 1 .. Len(cs) : i # j => cs[i].key # cs[j].key
    <3>1. Len(cs) = 2 + Z
      BY <2>4 DEF cs
    <3>2. \A i \in 1 .. Len(cs) : cs[i].key = [loc |-> l, path |-> P(i)]
      BY <3>1, <2>8 DEF cs
    <3>3. \A i, j \in 1 .. Len(cs) : i # j =>
              [loc |-> l, path |-> P(i)] # [loc |-> l, path |-> P(j)]
      BY <3>1, <2>7
    <3>4. ASSUME NEW i \in 1 .. Len(cs) PROVE cs[i].key.loc = l
      <4>1. cs[i].key = [loc |-> l, path |-> P(i)]
        BY <3>2, Zenon
      <4>. QED
        BY <4>1
    <3>5. ASSUME NEW i \in 1 .. Len(cs), NEW j \in 1 .. Len(cs), i # j
          PROVE  cs[i].key # cs[j].key
      <4>1. cs[i].key = [loc |-> l, path |-> P(i)] /\ cs[j].key = [loc |-> l, path |-> P(j)]
        BY <3>2, Zenon
      <4>2. [loc |-> l, path |-> P(i)] # [loc |-> l, path |-> P(j)]
        BY <3>3, <3>5
      <4>. QED
        BY <4>1, <4>2, Zenon
    <3>6. Len(cs) \in Nat
      BY <2>1, <3>1
    <3>. QED
      BY <3>6, <3>4, <3>5, Zenon
  <2>. QED
    BY <2>5, <2>9 DEF cs
<1>3. CASE hir.kind[e] # "Assign" /\ hir.kind[e] # "Call"
  <2>. DEFINE x == Entry(l, << >>, e, "StoreIntoLocal")
              y == Entry(l, <<Rvalue>>, e, "Expr")
  <2>1. Entries(e, ls) = <<x, y>>
    BY <1>3 DEF Entries, OtherEntries
  <2>2. x.key.loc = l /\ y.key.loc = l /\ x.key # y.key
    BY DEF Entry
  <2>. HIDE DEF x, y
  <2>. QED
    BY <2>1, <2>2
<1>. QED
  BY <1>1, <1>2, <1>3

-----------------------------------------------------------------------------
(* The inductive invariant.  Every attempt comes from a visit already made *)
(* (pos < pc) and its key is in mir_map, at a location whose instruction  *)
(* carries the span of the visited expression.                            *)

TypeI ==
    /\ hir \in Hir
    /\ DOMAIN mir \subseteq Locs /\ \A l \in DOMAIN mir : mir[l] \in Instr
    /\ pc \in 1 .. N + 1
    /\ conflicts \subseteq DOMAIN mir_map

AttemptsI ==
    \A a \in attempts :
        /\ a.pos \in 1 .. N /\ a.pos < pc
        /\ a.key \in DOMAIN mir_map
        /\ a.key.loc \in DOMAIN mir
        /\ mir[a.key.loc].span = hir.span[a.pos]

IInv == TypeI /\ AttemptsI /\ FirstVisitedWins /\ ConflictLogged /\ NoConflictWhenInjective

\* With pairwise different keys, the origin kept for a key of a visit is
\* that of the one call naming it.
LEMMA FirstForDistinct ==
    ASSUME NEW es, Len(es) \in Nat,
           \A i, j \in 1 .. Len(es) : i # j => es[i].key # es[j].key,
           NEW i \in 1 .. Len(es)
    PROVE  FirstFor(es, es[i].key) = es[i].origin
<1>. DEFINE Q(c) == es[c].key = es[i].key /\ \A j \in 1 .. c - 1 : es[j].key # es[i].key
<1>1. Q(i)
  OBVIOUS
<1>2. \A c \in 1 .. Len(es) : Q(c) => c = i
  OBVIOUS
<1>3. (CHOOSE c \in 1 .. Len(es) : Q(c)) = i
  BY <1>1, <1>2
<1>. QED
  BY <1>3 DEF FirstFor

\* The initial states satisfy the invariant.
LEMMA InitIInv == Init => IInv
<1>. SUFFICES ASSUME Init PROVE IInv
  OBVIOUS
<1>1. TypeI
  BY ShapeAssumptions DEF Init, TypeI
<1>2. AttemptsI /\ ConflictLogged /\ NoConflictWhenInjective
  BY DEF Init, AttemptsI, ConflictLogged, NoConflictWhenInjective
<1>3. FirstVisitedWins
  BY DEF Init, FirstVisitedWins
<1>. QED
  BY <1>1, <1>2, <1>3 DEF IInv

\* The record_desc calls of one visit, with pairwise different keys, keep
\* FirstVisitedWins and ConflictLogged: an old key keeps its origin and
\* is logged when a new call disagrees with it; a new key takes the
\* origin of its single call and is not logged.
LEMMA RecordStep ==
    ASSUME NEW es, Len(es) \in Nat,
           \A i, j \in 1 .. Len(es) : i # j => es[i].key # es[j].key,
           pc \in Nat, conflicts \subseteq DOMAIN mir_map,
           \A a \in attempts : a.pos \in Nat /\ a.pos < pc /\ a.key \in DOMAIN mir_map,
           FirstVisitedWins, ConflictLogged,
           RecordAll(es)
    PROVE  /\ conflicts' \subseteq DOMAIN mir_map'
           /\ \A a \in attempts' : a.key \in DOMAIN mir_map'
           /\ FirstVisitedWins'
           /\ ConflictLogged'
           /\ (\A i \in 1 .. Len(es) : es[i].key \notin DOMAIN mir_map) => conflicts' = conflicts
<1>. DEFINE K == KeysOf(es)
            New(i) == [key |-> es[i].key, origin |-> es[i].origin, pos |-> pc]
            NA == {New(i) : i \in 1 .. Len(es)}
            LG == {k \in K : k \in DOMAIN mir_map /\
                     \E i \in 1 .. Len(es) : es[i].key = k /\ es[i].origin # mir_map[k]}
<1>1. DOMAIN mir_map' = DOMAIN mir_map \cup K
  BY DEF RecordAll
<1>2. \A k \in DOMAIN mir_map : mir_map'[k] = mir_map[k]
  BY DEF RecordAll, Kept
<1>3. \A i \in 1 .. Len(es) : es[i].key \notin DOMAIN mir_map =>
          mir_map'[es[i].key] = es[i].origin
  <2>. SUFFICES ASSUME NEW i \in 1 .. Len(es), es[i].key \notin DOMAIN mir_map
                PROVE  mir_map'[es[i].key] = es[i].origin
    OBVIOUS
  <2>1. FirstFor(es, es[i].key) = es[i].origin
    BY FirstForDistinct
  <2>2. es[i].key \in K
    BY DEF KeysOf
  <2>. QED
    BY <2>1, <2>2 DEF RecordAll, Kept
<1>4. attempts' = attempts \cup NA
  BY DEF RecordAll, Attempted
<1>5. conflicts' = conflicts \cup LG
  <2>1. ASSUME NEW k \in K, k \notin DOMAIN mir_map
        PROVE  ~\E i \in 1 .. Len(es) : es[i].key = k /\ es[i].origin # Kept(es, k)
    <3>. SUFFICES ASSUME NEW i \in 1 .. Len(es), es[i].key = k PROVE es[i].origin = Kept(es, k)
      OBVIOUS
    <3>. QED
      BY <2>1, FirstForDistinct DEF Kept
  <2>2. Logged(es) = LG
    BY <2>1 DEF Logged, Kept
  <2>. QED
    BY <2>2 DEF RecordAll
<1>6. \A i \in 1 .. Len(es) : New(i).key = es[i].key /\ New(i).origin = es[i].origin
                              /\ New(i).pos = pc
  OBVIOUS
<1>. HIDE DEF New
<1>7. conflicts' \subseteq DOMAIN mir_map'
  BY <1>1, <1>5
<1>8. \A a \in attempts' : a.key \in DOMAIN mir_map'
  BY <1>1, <1>4, <1>6 DEF KeysOf
<1>9. FirstVisitedWins'
  <2>. SUFFICES ASSUME NEW k \in DOMAIN mir_map'
                PROVE  \E a \in attempts' :
                           /\ a.key = k /\ a.origin = mir_map'[k]
                           /\ \A b \in attempts' : b.key = k => a.pos <= b.pos
    BY DEF FirstVisitedWins
  <2>1. CASE k \in DOMAIN mir_map
    <3>1. PICK a \in attempts : /\ a.key = k /\ a.origin = mir_map[k]
                                /\ \A b \in attempts : b.key = k => a.pos <= b.pos
      BY <2>1 DEF FirstVisitedWins
    <3>2. ASSUME NEW b \in attempts', b.key = k PROVE a.pos <= b.pos
      <4>1. CASE b \in attempts
        BY <3>1, <3>2, <4>1
      <4>2. CASE b \in NA
        BY <3>1, <4>2, <1>6
      <4>. QED
        BY <1>4, <4>1, <4>2
    <3>. QED
      BY <1>2, <1>4, <2>1, <3>1, <3>2
  <2>2. CASE k \notin DOMAIN mir_map
    <3>1. PICK i \in 1 .. Len(es) : es[i].key = k
      BY <1>1, <2>2 DEF KeysOf
    <3>2. ASSUME NEW b \in attempts', b.key = k PROVE New(i).pos <= b.pos
      <4>1. b \notin attempts
        BY <2>2, <3>2
      <4>2. b \in NA
        BY <1>4, <4>1
      <4>. QED
        BY <4>2, <1>6
    <3>3. New(i) \in attempts' /\ New(i).key = k /\ New(i).origin = mir_map'[k]
      BY <1>3, <1>4, <1>6, <2>2, <3>1
    <3>. QED
      BY <3>2, <3>3
  <2>. QED
    BY <2>1, <2>2
<1>10. ConflictLogged'
  <2>. SUFFICES ASSUME NEW k \in DOMAIN mir_map'
                PROVE  k \in conflicts' <=>
                         \E a, b \in attempts' : a.key = k /\ b.key = k /\ a.origin # b.origin
    BY DEF ConflictLogged
  \* The calls of this visit give a key at most one origin.
  <2>1. \A a, b \in NA : a.key = k /\ b.key = k => a.origin = b.origin
    BY <1>6
  <2>2. CASE k \in DOMAIN mir_map
    <3>1. PICK w \in attempts : w.key = k /\ w.origin = mir_map[k]
      BY <2>2 DEF FirstVisitedWins
    <3>2. ASSUME NEW a \in attempts', NEW b \in attempts', a.key = k, b.key = k,
                 a.origin # b.origin
          PROVE  k \in conflicts'
      <4>1. CASE k \in conflicts
        BY <1>5, <4>1
      <4>2. CASE k \notin conflicts
        <5>1. \A c \in attempts : c.key = k => c.origin = mir_map[k]
          BY <2>2, <3>1, <4>2 DEF ConflictLogged
        <5>2. \E c \in NA : c.key = k /\ c.origin # mir_map[k]
          BY <1>4, <2>1, <3>2, <5>1
        <5>3. k \in LG
          BY <2>2, <5>2, <1>6 DEF KeysOf
        <5>. QED
          BY <1>5, <5>3
      <4>. QED
        BY <4>1, <4>2
    <3>3. ASSUME k \in conflicts'
          PROVE  \E a, b \in attempts' : a.key = k /\ b.key = k /\ a.origin # b.origin
      <4>1. CASE k \in conflicts
        BY <1>4, <2>2, <4>1 DEF ConflictLogged
      <4>2. CASE k \in LG
        <5>1. PICK i \in 1 .. Len(es) : es[i].key = k /\ es[i].origin # mir_map[k]
          BY <4>2
        <5>. QED
          BY <1>4, <1>6, <3>1, <5>1
      <4>. QED
        BY <1>5, <3>3, <4>1, <4>2
    <3>. QED
      BY <3>2, <3>3
  <2>3. CASE k \notin DOMAIN mir_map
    <3>1. k \notin conflicts'
      BY <1>5, <2>3
    <3>2. \A a \in attempts' : a.key = k => a \in NA
      BY <1>4, <2>3
    <3>. QED
      BY <2>1, <3>1, <3>2
  <2>. QED
    BY <2>2, <2>3
<1>11. (\A i \in 1 .. Len(es) : es[i].key \notin DOMAIN mir_map) => conflicts' = conflicts
  BY <1>5
<1>. QED
  BY <1>7, <1>8, <1>9, <1>10, <1>11

\* Every step keeps the invariant.  A visit that records calls names new
\* keys at the last matching location, whose span is the visited
\* expression's; under distinct spans no key recorded by an earlier visit
\* is there, so nothing is logged.
LEMMA NextIInv == IInv /\ [Next]_vars => IInv'
<1>. SUFFICES ASSUME IInv, [Next]_vars PROVE IInv'
  OBVIOUS
<1>. USE DEF IInv
<1>1. CASE UNCHANGED vars
  BY <1>1 DEF vars, TypeI, AttemptsI, FirstVisitedWins, ConflictLogged,
              NoConflictWhenInjective, DistinctSpans
<1>2. CASE VisitExpr
  <2>. DEFINE ls == Matching(hir.span[pc])
  <2>1. /\ pc \in 1 .. N /\ pc' = pc + 1 /\ hir' = hir /\ mir' = mir
        /\ ls \subseteq DOMAIN mir
    BY <1>2 DEF VisitExpr, TypeI, Matching
  <2>3. CASE UNCHANGED <<mir_map, conflicts, attempts>>
    <3>1. TypeI'
      BY <2>1, <2>3 DEF TypeI
    <3>2. AttemptsI'
      BY <2>1, <2>3 DEF AttemptsI
    <3>3. FirstVisitedWins' /\ ConflictLogged' /\ NoConflictWhenInjective'
      BY <2>1, <2>3 DEF FirstVisitedWins, ConflictLogged, NoConflictWhenInjective,
                        DistinctSpans
    <3>. QED
      BY <3>1, <3>2, <3>3
  <2>4. CASE ls # {} /\ RecordAll(Entries(pc, ls))
    <3>. DEFINE l == LastLoc(ls)
                es == Entries(pc, ls)
    <3>1. l \in ls /\ l \in DOMAIN mir /\ mir[l].span = hir.span[pc]
      BY <2>1, <2>4, LastLocIn DEF TypeI, Matching
    <3>2. ZipLen(pc, l) \in Nat
      <4>1. mir[l] \in Instr /\ hir \in Hir
        BY <3>1 DEF TypeI
      <4>2. Len(hir.args[pc]) \in Nat /\ mir[l].nargs \in Nat
        BY <2>1, <4>1 DEF Hir, Instr, Exprs
      <4>. QED
        BY <4>2 DEF ZipLen
    <3>3. /\ Len(es) \in Nat
          /\ \A i \in 1 .. Len(es) : es[i].key.loc = l
          /\ \A i, j \in 1 .. Len(es) : i # j => es[i].key # es[j].key
      BY <3>2, EntriesDistinct
    <3>. HIDE DEF es, l, ls
    <3>4. /\ conflicts' \subseteq DOMAIN mir_map'
          /\ \A a \in attempts' : a.key \in DOMAIN mir_map'
          /\ FirstVisitedWins'
          /\ ConflictLogged'
          /\ (\A i \in 1 .. Len(es) : es[i].key \notin DOMAIN mir_map) => conflicts' = conflicts
      <4>1. \A a \in attempts : a.pos \in Nat /\ a.pos < pc /\ a.key \in DOMAIN mir_map
        BY DEF AttemptsI
      <4>2. pc \in Nat /\ conflicts \subseteq DOMAIN mir_map
        BY <2>1 DEF TypeI
      <4>3. RecordAll(es)
        BY <2>4 DEF es, ls
      <4>. QED
        BY <3>3, <4>1, <4>2, <4>3, RecordStep
    <3>5. TypeI'
      BY <2>1, <3>4 DEF TypeI
    <3>6. AttemptsI'
      <4>. SUFFICES ASSUME NEW a \in attempts'
                    PROVE  /\ a.pos \in 1 .. N /\ a.pos < pc'
                           /\ a.key \in DOMAIN mir_map'
                           /\ a.key.loc \in DOMAIN mir'
                           /\ mir'[a.key.loc].span = hir'.span[a.pos]
        BY DEF AttemptsI
      <4>1. attempts' = attempts \cup Attempted(es)
        BY <2>4 DEF RecordAll, es, ls
      <4>2. CASE a \in attempts
        BY <2>1, <3>4, <4>2 DEF AttemptsI
      <4>3. CASE a \in Attempted(es)
        <5>1. PICK i \in 1 .. Len(es) : a = [key |-> es[i].key, origin |-> es[i].origin, pos |-> pc]
          BY <4>3 DEF Attempted
        <5>. QED
          BY <2>1, <3>1, <3>3, <3>4, <5>1
      <4>. QED
        BY <4>1, <4>2, <4>3
    <3>7. NoConflictWhenInjective'
      <4>. SUFFICES ASSUME DistinctSpans PROVE conflicts' = {}
        BY <2>1 DEF NoConflictWhenInjective, DistinctSpans
      <4>1. conflicts = {}
        BY DEF NoConflictWhenInjective
      <4>2. ASSUME NEW i \in 1 .. Len(es), es[i].key \in DOMAIN mir_map PROVE FALSE
        <5>1. PICK a \in attempts : a.key = es[i].key
          BY <4>2 DEF FirstVisitedWins
        <5>2. a.pos \in 1 .. N /\ a.pos < pc /\ mir[l].span = hir.span[a.pos]
          BY <3>3, <5>1 DEF AttemptsI
        <5>3. a.pos \in Exprs /\ pc \in Exprs /\ a.pos # pc
          BY <2>1, <5>2 DEF Exprs
        <5>4. hir.span[a.pos] # hir.span[pc]
          BY <5>3, Zenon DEF DistinctSpans
        <5>. QED
          BY <3>1, <5>2, <5>4
      <4>. QED
        BY <3>4, <4>1, <4>2
    <3>. QED
      BY <3>4, <3>5, <3>6, <3>7
  <2>. QED
    BY <1>2, <2>3, <2>4 DEF VisitExpr
<1>. QED
  BY <1>1, <1>2 DEF Next

\* IInv holds in every state of the walk.
THEOREM IInvInvariant == Spec => []IInv
BY InitIInv, NextIInv, PTL DEF Spec

\* record_desc keeps, for every key of mir_map, the origin recorded by the
\* expression the pre-order walk of UnlowerVisitor visited first.
THEOREM FirstVisitedWinsInvariant == Spec => []FirstVisitedWins
<1>1. IInv => FirstVisitedWins
  BY DEF IInv
<1>. QED
  BY <1>1, IInvInvariant, PTL

\* record_desc logs a key as conflicting exactly when two of its calls,
\* from any visits, gave that key different origins.
THEOREM ConflictLoggedInvariant == Spec => []ConflictLogged
<1>1. IInv => ConflictLogged
  BY DEF IInv
<1>. QED
  BY <1>1, IInvInvariant, PTL

\* When no two HIR expressions share a span, unlower logs no conflict.
THEOREM NoConflictWhenInjectiveInvariant == Spec => []NoConflictWhenInjective
<1>1. IInv => NoConflictWhenInjective
  BY DEF IInv
<1>. QED
  BY <1>1, IInvInvariant, PTL

-----------------------------------------------------------------------------
(* The shape of the map.  Every key that record_desc inserts is a          *)
(* (Location, SubLoc path) of the walked body naming a part that its       *)
(* instruction has, and every origin names an expression of the HIR.       *)

MapInv ==
    /\ hir \in HirShapes
    /\ DOMAIN mir_map \subseteq Key /\ \A k \in DOMAIN mir_map : mir_map[k] \in Origin
    /\ mismatched \subseteq Exprs
    /\ attempts \subseteq [key : Key, origin : Origin, pos : Exprs]
    /\ KeysExist

\* The record_desc calls of a visit whose locations match the expression's
\* kind name keys of Key that exist in the MIR instruction (get_sole_assign
\* and get_last_assign find an assignment, get_last_call a call with at
\* least as many operands as zip pairs) and origins of Origin.
LEMMA EntriesWellFormed ==
    ASSUME hir \in Hir,
           \A x \in Exprs : hir.kind[x] = "Assign" => Len(hir.args[x]) = 2,
           NEW e \in Exprs, NEW ls, LastLoc(ls) \in Locs, mir[LastLoc(ls)] \in Instr,
           Matches(e, ls)
    PROVE  \A i \in 1 .. Len(Entries(e, ls)) :
               /\ Entries(e, ls)[i].key \in Key
               /\ Entries(e, ls)[i].origin \in Origin
               /\ KeyExists(Entries(e, ls)[i].key)
<1>. DEFINE l == LastLoc(ls)
<1>0. hir.args[e] \in Seq(Exprs) /\ hir.kind[e] \in HirKinds
  BY DEF Hir
<1>1. CASE hir.kind[e] = "Assign"
  <2>1. mir[l].kind = "Assign"
    BY <1>1 DEF Matches, GetSoleAssign, GetLastAssign
  <2>2. hir.args[e][1] \in Exprs /\ hir.args[e][2] \in Exprs
    BY <1>0, <1>1
  <2>3. Entries(e, ls) = AssignEntries(e, l)
    BY <1>1 DEF Entries
  <2>4. /\ << >> \in Seq(SubLoc) /\ <<Dest>> \in Seq(SubLoc) /\ <<Rvalue>> \in Seq(SubLoc)
    BY DEF SubLoc, Dest, Rvalue
  <2>. DEFINE x == Entry(l, << >>, e, "Expr")
              y == Entry(l, <<Dest>>, hir.args[e][1], "Expr")
              z == Entry(l, <<Rvalue>>, hir.args[e][2], "Expr")
  <2>5. Entries(e, ls) = <<x, y, z>>
    BY <2>3 DEF AssignEntries
  <2>6. /\ x.key \in Key /\ x.origin \in Origin /\ KeyExists(x.key)
        /\ y.key \in Key /\ y.origin \in Origin /\ KeyExists(y.key)
        /\ z.key \in Key /\ z.origin \in Origin /\ KeyExists(z.key)
    BY <2>1, <2>2, <2>4 DEF Entry, Key, Origin, KeyExists
  <2>. HIDE DEF x, y, z
  <2>. QED
    BY <2>5, <2>6
<1>2. CASE hir.kind[e] = "Call"
  <2>. DEFINE Z == ZipLen(e, l)
              hd == <<Entry(l, << >>, e, "StoreIntoLocal"), Entry(l, <<Rvalue>>, e, "Expr")>>
              tl == [i \in 1 .. Z |-> Entry(l, <<Rvalue, CallArg(i - 1)>>, hir.args[e][i], "Expr")]
              S == {hd[1], hd[2]} \cup {tl[i] : i \in 1 .. Z}
  <2>1. mir[l].kind = "Call"
    BY <1>2 DEF Matches, GetLastCall
  <2>2. /\ Z \in Nat /\ Z <= Len(hir.args[e]) /\ Z <= mir[l].nargs
        /\ mir[l].nargs \in Nat
    <3>1. mir[l].nargs \in Nat /\ Len(hir.args[e]) \in Nat
      BY <1>0 DEF Instr
    <3>. QED
      BY <3>1 DEF ZipLen
  <2>3. hd \in Seq(S) /\ Len(hd) = 2
    OBVIOUS
  <2>9. Z \in Nat
    BY <2>2
  <2>4. tl \in Seq(S) /\ Len(tl) = Z
    <3>1. tl \in [1 .. Z -> S]
      <4>1. \A i \in 1 .. Z : tl[i] \in S
        OBVIOUS
      <4>2. tl = [i \in 1 .. Z |-> tl[i]]
        OBVIOUS
      <4>. HIDE DEF tl, S
      <4>. QED
        BY <4>1, <4>2, Zenon
    <3>2. Len(tl) = Z
      BY <2>9
    <3>. HIDE DEF tl, S, Z
    <3>. QED
      BY <2>9, <3>1, <3>2
  <2>5. /\ Len(hd \o tl) = 2 + Z
        /\ \A i \in 1 .. 2 + Z : (hd \o tl)[i] = IF i <= 2 THEN hd[i] ELSE tl[i - 2]
    BY <2>2, <2>3, <2>4, ConcatProperties
  <2>6. Entries(e, ls) = hd \o tl
    <3>1. Entries(e, ls) = CallEntries(e, l)
      BY <1>2 DEF Entries
    <3>. QED
      BY <3>1 DEF CallEntries
  <2>7. /\ hd[1].key \in Key /\ hd[1].origin \in Origin /\ KeyExists(hd[1].key)
        /\ hd[2].key \in Key /\ hd[2].origin \in Origin /\ KeyExists(hd[2].key)
    <3>1. << >> \in Seq(SubLoc) /\ <<Rvalue>> \in Seq(SubLoc)
      BY DEF SubLoc, Rvalue
    <3>. DEFINE x == Entry(l, << >>, e, "StoreIntoLocal")
                y == Entry(l, <<Rvalue>>, e, "Expr")
    <3>2. hd[1] = x /\ hd[2] = y
      OBVIOUS
    <3>3. /\ x.key \in Key /\ x.origin \in Origin /\ KeyExists(x.key)
          /\ y.key \in Key /\ y.origin \in Origin /\ KeyExists(y.key)
      BY <2>1, <3>1 DEF Entry, Key, Origin, KeyExists
    <3>. HIDE DEF x, y, hd
    <3>. QED
      BY <3>2, <3>3
  <2>8. ASSUME NEW j \in 1 .. Z
        PROVE  tl[j].key \in Key /\ tl[j].origin \in Origin /\ KeyExists(tl[j].key)
    <3>1. hir.args[e][j] \in Exprs /\ j - 1 \in 0 .. mir[l].nargs - 1
      BY <1>0, <2>2
    <3>2. <<Rvalue, CallArg(j - 1)>> \in Seq(SubLoc)
      BY DEF SubLoc, Rvalue, CallArg
    <3>. DEFINE p == <<Rvalue, CallArg(j - 1)>>
                a == hir.args[e][j]
                x == Entry(l, p, a, "Expr")
    <3>3. tl[j] = x
      OBVIOUS
    <3>4. x.key = [loc |-> l, path |-> p] /\ x.origin = [hir |-> a, desc |-> "Expr"]
      BY DEF Entry
    <3>. HIDE DEF tl, x
    <3>5. x.key \in Key
      BY <3>2, <3>4 DEF Key
    <3>6. x.origin \in Origin
      BY <3>1, <3>4 DEF Origin
    <3>7. KeyExists(x.key)
      <4>1. p \in {<<Rvalue, CallArg(i)>> : i \in 0 .. mir[l].nargs - 1}
        BY <3>1
      <4>. QED
        BY <2>1, <3>4, <4>1 DEF KeyExists
    <3>. QED
      BY <3>3, <3>5, <3>6, <3>7
  <2>. HIDE DEF hd, tl, Z, S
  <2>. QED
    <3>. SUFFICES ASSUME NEW i \in 1 .. 2 + Z
                  PROVE  /\ (hd \o tl)[i].key \in Key /\ (hd \o tl)[i].origin \in Origin
                         /\ KeyExists((hd \o tl)[i].key)
      BY <2>5, <2>6
    <3>1. CASE i <= 2
      BY <2>2, <2>5, <2>7, <3>1
    <3>2. CASE ~(i <= 2)
      <4>1. i - 2 \in 1 .. Z /\ (hd \o tl)[i] = tl[i - 2]
        BY <2>2, <2>5, <3>2
      <4>. QED
        BY <2>8, <4>1
    <3>. QED
      BY <3>1, <3>2
<1>3. CASE hir.kind[e] # "Assign" /\ hir.kind[e] # "Call"
  <2>1. mir[l].kind = "Assign"
    BY <1>3 DEF Matches, GetLastAssign
  <2>2. Entries(e, ls) = OtherEntries(e, l)
    BY <1>3 DEF Entries
  <2>3. << >> \in Seq(SubLoc) /\ <<Rvalue>> \in Seq(SubLoc)
    BY DEF SubLoc, Rvalue
  <2>. DEFINE x == Entry(l, << >>, e, "StoreIntoLocal")
              y == Entry(l, <<Rvalue>>, e, "Expr")
  <2>4. Entries(e, ls) = <<x, y>>
    BY <2>2 DEF OtherEntries
  <2>5. /\ x.key \in Key /\ x.origin \in Origin /\ KeyExists(x.key)
        /\ y.key \in Key /\ y.origin \in Origin /\ KeyExists(y.key)
    BY <2>1, <2>3 DEF Entry, Key, Origin, KeyExists
  <2>. HIDE DEF x, y
  <2>. QED
    BY <2>4, <2>5
<1>. QED
  BY <1>1, <1>2, <1>3

\* The walk starts with an empty map, no mismatch and no call.
LEMMA InitMapInv == Init => MapInv
BY DEF Init, MapInv, KeysExist

\* Every step keeps MapInv: a visit inserts only keys of its own
\* record_desc calls, with the origin of the one call that names each, at
\* a location of the unchanged MIR body that has the part the key names.
LEMMA NextMapInv == IInv /\ MapInv /\ [Next]_vars => MapInv'
<1>. SUFFICES ASSUME IInv, MapInv, [Next]_vars PROVE MapInv'
  OBVIOUS
<1>1. CASE UNCHANGED vars
  BY <1>1 DEF vars, MapInv, KeysExist, KeyExists
<1>2. CASE VisitExpr
  <2>. DEFINE ls == Matching(hir.span[pc])
  <2>1. /\ pc \in 1 .. N /\ pc' = pc + 1 /\ hir' = hir /\ mir' = mir
        /\ ls \subseteq DOMAIN mir
    BY <1>2 DEF VisitExpr, IInv, TypeI, Matching
  <2>2. mismatched' \subseteq Exprs
    BY <1>2, <2>1 DEF VisitExpr, MapInv, Exprs
  <2>3. \A k : KeyExists(k)' = KeyExists(k)
    BY <2>1 DEF KeyExists
  <2>4. hir' \in HirShapes
    BY <2>1 DEF MapInv
  <2>5. CASE UNCHANGED <<mir_map, conflicts, attempts>>
    BY <2>2, <2>3, <2>4, <2>5 DEF MapInv, KeysExist
  <2>6. CASE ls # {} /\ Matches(pc, ls) /\ RecordAll(Entries(pc, ls))
    <3>. DEFINE l == LastLoc(ls)
                es == Entries(pc, ls)
    <3>1. l \in ls /\ l \in DOMAIN mir /\ l \in Locs /\ mir[l] \in Instr
      BY <2>1, <2>6, LastLocIn DEF IInv, TypeI
    <3>2. ZipLen(pc, l) \in Nat
      <4>1. hir \in Hir
        BY DEF IInv, TypeI
      <4>2. Len(hir.args[pc]) \in Nat /\ mir[l].nargs \in Nat
        BY <2>1, <3>1, <4>1 DEF Hir, Instr, Exprs
      <4>. QED
        BY <4>2 DEF ZipLen
    <3>3. /\ Len(es) \in Nat
          /\ \A i, j \in 1 .. Len(es) : i # j => es[i].key # es[j].key
      BY <3>2, EntriesDistinct
    <3>4. \A i \in 1 .. Len(es) :
              es[i].key \in Key /\ es[i].origin \in Origin /\ KeyExists(es[i].key)
      <4>1. hir \in Hir /\ \A x \in Exprs : hir.kind[x] = "Assign" => Len(hir.args[x]) = 2
        BY ShapeAssumptions DEF MapInv
      <4>2. pc \in Exprs
        BY <2>1 DEF Exprs
      <4>. QED
        BY <2>6, <3>1, <4>1, <4>2, EntriesWellFormed
    <3>. HIDE DEF es, l, ls
    <3>5. /\ DOMAIN mir_map' = DOMAIN mir_map \cup KeysOf(es)
          /\ \A k \in DOMAIN mir_map' : mir_map'[k] = Kept(es, k)
          /\ attempts' = attempts \cup Attempted(es)
      BY <2>6 DEF RecordAll, es, ls
    <3>6. \A k \in KeysOf(es) : k \in Key /\ KeyExists(k)
      BY <3>4 DEF KeysOf
    <3>7. \A k \in DOMAIN mir_map' : mir_map'[k] \in Origin
      <4>. SUFFICES ASSUME NEW k \in DOMAIN mir_map' PROVE Kept(es, k) \in Origin
        BY <3>5
      <4>1. CASE k \in DOMAIN mir_map
        BY <4>1 DEF Kept, MapInv
      <4>2. CASE k \notin DOMAIN mir_map
        <5>1. PICK i \in 1 .. Len(es) : es[i].key = k
          BY <3>5, <4>2 DEF KeysOf
        <5>2. FirstFor(es, k) = es[i].origin
          BY <3>3, <5>1, FirstForDistinct
        <5>. QED
          BY <3>4, <4>2, <5>2 DEF Kept
      <4>. QED
        BY <4>1, <4>2
    <3>8. attempts' \subseteq [key : Key, origin : Origin, pos : Exprs]
      <4>1. Attempted(es) \subseteq [key : Key, origin : Origin, pos : Exprs]
        BY <2>1, <3>4 DEF Attempted, Exprs
      <4>. QED
        BY <3>5, <4>1 DEF MapInv
    <3>9. KeysExist'
      BY <2>3, <3>5, <3>6 DEF KeysExist, MapInv
    <3>. QED
      BY <2>2, <2>4, <3>5, <3>6, <3>7, <3>8, <3>9 DEF MapInv
  <2>. QED
    BY <1>2, <2>5, <2>6 DEF VisitExpr
<1>. QED
  BY <1>1, <1>2 DEF Next

\* The map of unlower is well typed in every state: keys are locations of
\* the body with SubLoc paths, origins name HIR expressions, and the walk
\* position, the conflict log, the mismatch reports and the history stay
\* within their sets.
THEOREM TypeCorrect == Spec => []TypeOK
<1>1. IInv /\ MapInv => TypeOK
  BY DEF IInv, TypeI, MapInv, TypeOK
<1>2. Spec => [](IInv /\ MapInv)
  BY InitIInv, NextIInv, InitMapInv, NextMapInv, PTL DEF Spec
<1>. QED
  BY <1>1, <1>2, PTL

\* Every key record_desc inserts names a part its MIR instruction really
\* has: [Dest] or [Rvalue] of an assignment or call, [Rvalue, CallArg(i)]
\* of a call with more than i operands.
THEOREM KeysExistInvariant == Spec => []KeysExist
<1>1. IInv /\ MapInv => KeysExist
  BY DEF MapInv
<1>2. Spec => [](IInv /\ MapInv)
  BY InitIInv, NextIInv, InitMapInv, NextMapInv, PTL DEF Spec
<1>. QED
  BY <1>1, <1>2, PTL

=============================================================================
