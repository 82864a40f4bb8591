---------------------------- MODULE ArchiveProofs ----------------------------
(***************************************************************************)
(* Theorems of what becomes of a day's data on its way to a strategy, for  *)
(* any registries, contracts, dates, times and prices, and any number of   *)
(* files, rows and prints.  An archive: a day loaded holds what its files  *)
(* print of that day, in order.  The day files: what is served from one is *)
(* what was written, and every file is accounted for.                      *)
(***************************************************************************)
EXTENDS DayFile, Ingest, FiniteLemmas

-----------------------------------------------------------------------------
(* Registries.                                                               *)

\* What a registry may hold.
Specs == Listed \cup UNION {Range(known) : known \in Foreign}

\* new has all that old has, and finds by the same ids what old finds.
Grows(old, new) ==
  /\ \A id \in DOMAIN old : id \in DOMAIN new /\ new[id] = old[id]
  /\ \A spec : IsKnown(old, spec) => KnownAs(new, spec) = KnownAs(old, spec)

\* A registry a program starts with is a sequence of what a registry may hold.
LEMMA ForeignTyped == ASSUME NEW known \in Foreign PROVE known \in Seq(Specs)
<1>1. known \in Seq(Range(known))
  BY DayFileAssumption
<1>2. Range(known) \subseteq Specs
  BY DEF Specs
<1>3. QED
  BY <1>1, <1>2

LEMMA GrowsItself == ASSUME NEW reg PROVE Grows(reg, reg)
BY DEF Grows

LEMMA GrowsOn ==
  ASSUME NEW a, NEW b, NEW c, Grows(a, b), Grows(b, c)
  PROVE  Grows(a, c)
BY DEF Grows, IsKnown

\* A contract that is known keeps its id.
LEMMA IdKept ==
  ASSUME NEW old, NEW new, Grows(old, new), NEW spec, IsKnown(old, spec)
  PROVE  IsKnown(new, spec) /\ IdOf(new, spec) = IdOf(old, spec)
BY DEF Grows, IsKnown, IdOf

\* What a lookup finds is there, and is the contract asked for.
LEMMA IdFound ==
  ASSUME NEW reg, NEW spec, IsKnown(reg, spec)
  PROVE  IdOf(reg, spec) \in DOMAIN reg /\ KeyOf(reg[IdOf(reg, spec)]) = KeyOf(spec)
<1>1. IdOf(reg, spec) \in KnownAs(reg, spec)
  BY DEF IdOf, IsKnown
<1>2. QED
  BY <1>1 DEF KnownAs

\* Contracts of one identity are found alike.
LEMMA SameKey ==
  ASSUME NEW reg, NEW spec, NEW other, KeyOf(spec) = KeyOf(other)
  PROVE  KnownAs(reg, spec) = KnownAs(reg, other) /\ IdOf(reg, spec) = IdOf(reg, other)
<1>1. KnownAs(reg, spec) = KnownAs(reg, other)
  BY DEF KnownAs
<1>2. QED
  BY <1>1 DEF IdOf

\* add finds the contract afterwards, loses none, takes a new one as it is and leaves
\* the others as they were.
LEMMA AddedTo ==
  ASSUME NEW S, NEW reg \in Seq(S), NEW spec \in S
  PROVE  /\ Added(reg, spec) \in Seq(S) /\ Grows(reg, Added(reg, spec)) /\ IsKnown(Added(reg, spec), spec)
         /\ \A id \in DOMAIN Added(reg, spec) : id \in DOMAIN reg \/ Added(reg, spec)[id] = spec
         /\ ~IsKnown(reg, spec) => Added(reg, spec)[IdOf(Added(reg, spec), spec)] = spec
         /\ \A other : KeyOf(other) # KeyOf(spec) => KnownAs(Added(reg, spec), other) = KnownAs(reg, other)
<1>1. CASE IsKnown(reg, spec)
  BY <1>1, GrowsItself DEF Added
<1>2. CASE ~IsKnown(reg, spec)
  <2> DEFINE new == Append(reg, spec)
             n   == Len(reg)
  <2>1. Added(reg, spec) = new
    BY <1>2 DEF Added
  <2>2. /\ new \in Seq(S) /\ n \in Nat /\ DOMAIN reg = 1 .. n /\ DOMAIN new = 1 .. n + 1
        /\ new[n + 1] = spec /\ \A id \in 1 .. n : new[id] = reg[id]
    OBVIOUS
  <2> HIDE DEF new, n
  <2>3. /\ n + 1 \in DOMAIN new /\ n + 1 \notin DOMAIN reg
        /\ \A id : id \in DOMAIN new <=> id \in DOMAIN reg \/ id = n + 1
    BY <2>2
  <2>4. KnownAs(reg, spec) = {}
    BY <1>2 DEF IsKnown
  <2>5. \A other : KnownAs(new, other) =
                     KnownAs(reg, other) \cup (IF KeyOf(spec) = KeyOf(other) THEN {n + 1} ELSE {})
    BY <2>2, <2>3 DEF KnownAs
  <2>6. KnownAs(new, spec) = {n + 1}
    BY <2>4, <2>5
  <2>7. \A other : IsKnown(reg, other) => KnownAs(new, other) = KnownAs(reg, other)
    <3> SUFFICES ASSUME NEW other, IsKnown(reg, other) PROVE KnownAs(new, other) = KnownAs(reg, other)
      OBVIOUS
    <3>1. KeyOf(spec) # KeyOf(other)
      BY <2>4, SameKey DEF IsKnown
    <3>2. KnownAs(new, other) = KnownAs(reg, other) \cup {}
      BY <2>5, <3>1
    <3>3. QED
      BY <3>2
  <2>8. Grows(reg, new)
    BY <2>2, <2>3, <2>7 DEF Grows
  <2>9. IdOf(new, spec) = n + 1
    BY <2>6 DEF IdOf
  <2>10. IsKnown(new, spec)
    BY <2>6 DEF IsKnown
  <2>11. \A id \in DOMAIN new : id \in DOMAIN reg \/ new[id] = spec
    BY <2>2, <2>3
  <2>12. \A other : KeyOf(other) # KeyOf(spec) => KnownAs(new, other) = KnownAs(reg, other)
    BY <2>5
  <2>13. QED
    BY <2>1, <2>2, <2>8, <2>9, <2>10, <2>11, <2>12
<1>3. QED
  BY <1>1, <1>2

LEMMA AddedGrows ==
  ASSUME NEW reg \in Seq(Specs), NEW spec \in Specs
  PROVE  /\ Added(reg, spec) \in Seq(Specs) /\ Grows(reg, Added(reg, spec)) /\ IsKnown(Added(reg, spec), spec)
         /\ \A id \in DOMAIN Added(reg, spec) : id \in DOMAIN reg \/ Added(reg, spec)[id] = spec
         /\ ~IsKnown(reg, spec) => Added(reg, spec)[IdOf(Added(reg, spec), spec)] = spec
BY AddedTo

-----------------------------------------------------------------------------
(* Opening a file: the walk over its directory.                              *)

\* The contracts of a table are different ones.
AllDiffer(table) ==
  \A j, k \in 1 .. Len(table) : KeyOf(table[j]) = KeyOf(table[k]) => j = k

Walks == [registry : Seq(Specs), ids : Seq(Nat), ok : BOOLEAN]

\* Where a walk that began with a registry is after n entries.
WalkedTo(st, reg, table, n) ==
  /\ Grows(reg, st.registry) /\ Len(st.ids) = n /\ st.ok
  /\ \A k \in 1 .. n :
       /\ IsKnown(st.registry, table[k]) /\ st.ids[k] = IdOf(st.registry, table[k])
       /\ IsKnown(reg, table[k]) \/ st.registry[st.ids[k]].lot = table[k].lot
  /\ \A id \in DOMAIN st.registry : id \in DOMAIN reg \/ \E k \in 1 .. n : st.registry[id] = table[k]

\* One entry of a directory: the fields, and what makes it a new contract.
LEMMA EnteredType ==
  ASSUME NEW st \in Walks, NEW spec \in Specs
  PROVE  /\ Entered(st, spec) \in Walks
         /\ Entered(st, spec).registry = Added(st.registry, spec)
         /\ IdOf(Added(st.registry, spec), spec) \in Nat
         /\ Entered(st, spec).ids = Append(st.ids, IdOf(Added(st.registry, spec), spec))
         /\ Entered(st, spec).ok <=>
              st.ok /\ \A k \in DOMAIN st.ids : st.ids[k] # IdOf(Added(st.registry, spec), spec)
<1> DEFINE grown == Added(st.registry, spec)
           id    == IdOf(grown, spec)
<1>1. st.registry \in Seq(Specs) /\ st.ids \in Seq(Nat) /\ st.ok \in BOOLEAN
  BY DEF Walks
<1>2. grown \in Seq(Specs) /\ IsKnown(grown, spec)
  BY <1>1, AddedGrows
<1>3. id \in Nat
  <2>1. id \in DOMAIN grown
    BY <1>2, IdFound
  <2> HIDE DEF grown, id
  <2>2. QED
    BY <1>2, <2>1
<1>4. Entered(st, spec) = [registry |-> grown, ids |-> Append(st.ids, id),
                           ok |-> st.ok /\ id \notin {st.ids[k] : k \in DOMAIN st.ids}]
  BY DEF Entered
<1> HIDE DEF grown, id
<1>5. Append(st.ids, id) \in Seq(Nat)
  BY <1>1, <1>3
<1>6. Entered(st, spec).ok <=> st.ok /\ \A k \in DOMAIN st.ids : st.ids[k] # id
  <2> DEFINE fresh == st.ok /\ id \notin {st.ids[k] : k \in DOMAIN st.ids}
  <2>1. fresh <=> st.ok /\ \A k \in DOMAIN st.ids : st.ids[k] # id
    OBVIOUS
  <2>2. Entered(st, spec) = [registry |-> grown, ids |-> Append(st.ids, id), ok |-> fresh]
    BY <1>4
  <2> HIDE DEF fresh
  <2>3. Entered(st, spec).ok = fresh
    BY <2>2
  <2>4. QED
    BY <2>1, <2>3
<1>7. Entered(st, spec).registry = grown /\ Entered(st, spec).ids = Append(st.ids, id)
  BY <1>4
<1>8. Entered(st, spec) \in Walks
  <2> DEFINE fresh == st.ok /\ id \notin {st.ids[k] : k \in DOMAIN st.ids}
  <2>1. fresh \in BOOLEAN
    OBVIOUS
  <2> HIDE DEF fresh
  <2>2. [registry |-> grown, ids |-> Append(st.ids, id), ok |-> fresh] \in Walks
    BY <1>2, <1>5, <2>1 DEF Walks
  <2>3. QED
    BY <1>4, <2>2 DEF fresh
<1>9. QED
  BY <1>3, <1>6, <1>7, <1>8 DEF grown, id

\* One entry more, if no contract stands twice in the table.
LEMMA WalkNext ==
  ASSUME NEW reg \in Seq(Specs), NEW table \in Seq(Specs), AllDiffer(table), NEW n \in 1 .. Len(table),
         NEW st \in Walks, WalkedTo(st, reg, table, n - 1)
  PROVE  WalkedTo(Entered(st, table[n]), reg, table, n)
<1> DEFINE spec  == table[n]
           grown == Added(st.registry, spec)
           id    == IdOf(grown, spec)
           new   == Entered(st, spec)
<1>1. /\ spec \in Specs /\ n \in Nat /\ n - 1 \in Nat /\ Len(st.ids) = n - 1 /\ st.ids \in Seq(Nat)
      /\ st.registry \in Seq(Specs) /\ st.ok
      /\ \A k \in 1 .. n : k = n \/ k \in 1 .. n - 1
      /\ \A k \in 1 .. n - 1 : k \in 1 .. n /\ k # n /\ k \in 1 .. Len(table)
  BY DEF Walks, WalkedTo
<1>2. /\ grown \in Seq(Specs) /\ Grows(st.registry, grown) /\ IsKnown(grown, spec)
      /\ \A i \in DOMAIN grown : i \in DOMAIN st.registry \/ grown[i] = spec
      /\ ~IsKnown(st.registry, spec) => grown[id] = spec
  BY <1>1, AddedGrows
<1>3. new.registry = grown /\ new.ids = Append(st.ids, id) /\ id \in Nat
      /\ (new.ok <=> st.ok /\ \A k \in DOMAIN st.ids : st.ids[k] # id)
  BY <1>1, EnteredType
<1> HIDE DEF spec, grown, id, new
<1>4. \A k \in 1 .. n - 1 : KeyOf(table[k]) # KeyOf(spec)
  BY <1>1 DEF AllDiffer, spec
<1>5. \A k \in 1 .. n - 1 : /\ IsKnown(grown, table[k]) /\ st.ids[k] = IdOf(grown, table[k])
                            /\ st.ids[k] \in DOMAIN st.registry /\ grown[st.ids[k]] = st.registry[st.ids[k]]
                            /\ IsKnown(reg, table[k]) \/ st.registry[st.ids[k]].lot = table[k].lot
                            /\ KeyOf(grown[st.ids[k]]) = KeyOf(table[k])
  <2> SUFFICES ASSUME NEW k \in 1 .. n - 1
               PROVE  /\ IsKnown(grown, table[k]) /\ st.ids[k] = IdOf(grown, table[k])
                      /\ st.ids[k] \in DOMAIN st.registry /\ grown[st.ids[k]] = st.registry[st.ids[k]]
                      /\ IsKnown(reg, table[k]) \/ st.registry[st.ids[k]].lot = table[k].lot
                      /\ KeyOf(grown[st.ids[k]]) = KeyOf(table[k])
    OBVIOUS
  <2>1. /\ IsKnown(st.registry, table[k]) /\ st.ids[k] = IdOf(st.registry, table[k])
        /\ IsKnown(reg, table[k]) \/ st.registry[st.ids[k]].lot = table[k].lot
    BY DEF WalkedTo
  <2>2. IsKnown(grown, table[k]) /\ IdOf(grown, table[k]) = IdOf(st.registry, table[k])
    BY <1>2, <2>1, IdKept
  <2>3. st.ids[k] \in DOMAIN st.registry
    BY <2>1, IdFound
  <2>4. KeyOf(grown[IdOf(grown, table[k])]) = KeyOf(table[k])
    BY <2>2, IdFound
  <2>5. grown[st.ids[k]] = st.registry[st.ids[k]]
    BY <1>2, <2>3 DEF Grows
  <2>6. QED
    BY <2>1, <2>2, <2>3, <2>4, <2>5
<1>6. KeyOf(grown[id]) = KeyOf(spec)
  BY <1>2, IdFound DEF id
<1>7. new.ok
  <2>1. \A k \in DOMAIN st.ids : st.ids[k] # id
    <3>1. DOMAIN st.ids = 1 .. n - 1
      BY <1>1
    <3>2. QED
      BY <1>4, <1>5, <1>6, <3>1
  <2>2. QED
    BY <1>1, <1>3, <2>1
<1>8. Len(new.ids) = n /\ new.ids[n] = id /\ \A k \in 1 .. n - 1 : new.ids[k] = st.ids[k]
  BY <1>1, <1>3
<1>9. IsKnown(reg, spec) \/ grown[id].lot = spec.lot
  <2> SUFFICES ASSUME ~IsKnown(reg, spec), IsKnown(st.registry, spec) PROVE FALSE
    BY <1>2
  <2>1. IdOf(st.registry, spec) \in DOMAIN st.registry
        /\ KeyOf(st.registry[IdOf(st.registry, spec)]) = KeyOf(spec)
    BY IdFound
  <2> DEFINE i == IdOf(st.registry, spec)
  <2> HIDE DEF i
  <2>2. i \in DOMAIN st.registry /\ KeyOf(st.registry[i]) = KeyOf(spec)
    BY <2>1 DEF i
  <2>3. i \notin DOMAIN reg
    <3>1. i \in DOMAIN reg => st.registry[i] = reg[i]
      BY DEF WalkedTo, Grows
    <3>2. i \in DOMAIN reg => i \in KnownAs(reg, spec)
      BY <2>2, <3>1 DEF KnownAs
    <3>3. QED
      BY <3>2 DEF IsKnown
  <2>4. PICK k \in 1 .. n - 1 : st.registry[i] = table[k]
    BY <2>2, <2>3 DEF WalkedTo
  <2>5. QED
    BY <1>4, <2>2, <2>4
<1>10. Grows(reg, grown)
  BY <1>2, GrowsOn DEF WalkedTo
<1>11. \A k \in 1 .. n :
         /\ IsKnown(grown, table[k]) /\ new.ids[k] = IdOf(grown, table[k])
         /\ IsKnown(reg, table[k]) \/ grown[new.ids[k]].lot = table[k].lot
  <2> SUFFICES ASSUME NEW k \in 1 .. n
               PROVE  /\ IsKnown(grown, table[k]) /\ new.ids[k] = IdOf(grown, table[k])
                      /\ IsKnown(reg, table[k]) \/ grown[new.ids[k]].lot = table[k].lot
    OBVIOUS
  <2>1. CASE k = n
    BY <1>2, <1>8, <1>9, <2>1 DEF id, spec
  <2>2. CASE k \in 1 .. n - 1
    BY <1>5, <1>8, <2>2
  <2>3. QED
    BY <1>1, <2>1, <2>2
<1>12. \A i \in DOMAIN grown : i \in DOMAIN reg \/ \E k \in 1 .. n : grown[i] = table[k]
  <2> SUFFICES ASSUME NEW i \in DOMAIN grown, i \notin DOMAIN reg PROVE \E k \in 1 .. n : grown[i] = table[k]
    OBVIOUS
  <2>1. CASE i \in DOMAIN st.registry
    <3>1. PICK k \in 1 .. n - 1 : st.registry[i] = table[k]
      BY <2>1 DEF WalkedTo
    <3>2. grown[i] = st.registry[i]
      BY <1>2, <2>1 DEF Grows
    <3>3. QED
      BY <1>1, <3>1, <3>2
  <2>2. CASE grown[i] = spec
    <3>1. n \in 1 .. n
      BY <1>1
    <3>2. QED
      BY <2>2, <3>1 DEF spec
  <2>3. QED
    BY <1>2, <2>1, <2>2
<1>13. WalkedTo(new, reg, table, n)
  BY <1>3, <1>7, <1>8, <1>10, <1>11, <1>12 DEF WalkedTo
<1>14. QED
  BY <1>13 DEF new, spec

\* A walk over contracts that differ ends well.
LEMMA WalkEnds ==
  ASSUME NEW reg \in Seq(Specs), NEW table \in Seq(Specs), AllDiffer(table)
  PROVE  Walked(reg, table) \in Walks /\ WalkedTo(Walked(reg, table), reg, table, Len(table))
<1> DEFINE n     == Len(table)
           start == [registry |-> reg, ids |-> <<>>, ok |-> TRUE]
           step  == [p \in Walks \X (1 .. n) |-> Entered(p[1], table[p[2]])]
           Is(f) == f = [k \in 0 .. n |-> IF k = 0 THEN start ELSE Entered(f[k - 1], table[k])]
           after == CHOOSE f : Is(f)
<1>1. n \in Nat /\ \A k \in 1 .. n : table[k] \in Specs
  OBVIOUS
<1>2. start \in Walks
  BY DEF Walks
<1>3. step \in [Walks \X (1 .. n) -> Walks]
  BY <1>1, EnteredType
<1>4. Walked(reg, table) = after[n]
  BY DEF Walked
<1> HIDE DEF n, start
<1>5. \E f : Recursion(f, n, Walks, start, step)
  <2> HIDE DEF step
  <2> QED
    BY <1>1, <1>2, <1>3, RecursionExists
<1>6. PICK f : Recursion(f, n, Walks, start, step)
  BY <1>5
<1>7. \A k \in 1 .. n : f[k] = Entered(f[k - 1], table[k])
  <2> SUFFICES ASSUME NEW k \in 1 .. n PROVE f[k] = Entered(f[k - 1], table[k])
    OBVIOUS
  <2>1. f \in [0 .. n -> Walks] /\ f[k] = step[<<f[k - 1], k>>]
    <3> HIDE DEF step
    <3> QED
      BY <1>6 DEF Recursion
  <2>2. k - 1 \in 0 .. n
    BY <1>1
  <2>3. f[k - 1] \in Walks
    BY <2>1, <2>2
  <2>4. step[<<f[k - 1], k>>] = Entered(f[k - 1], table[k])
    BY <2>3
  <2>5. QED
    BY <2>1, <2>4
<1>8. Is(f)
  <2>1. DOMAIN f = 0 .. n /\ f[0] = start /\ f = [k \in DOMAIN f |-> f[k]]
    BY <1>6 DEF Recursion
  <2>2. \A k \in 0 .. n : f[k] = IF k = 0 THEN start ELSE Entered(f[k - 1], table[k])
    BY <1>1, <1>7, <2>1
  <2>3. QED
    BY <2>1, <2>2
<1>9. Is(after)
  <2> HIDE DEF Is
  <2> QED
    BY <1>8
<1> HIDE DEF after
<1>10. after[0] = start /\ \A k \in 1 .. n : after[k] = Entered(after[k - 1], table[k])
  <2>1. 0 \in 0 .. n /\ \A k \in 1 .. n : k \in 0 .. n /\ k # 0
    BY <1>1
  <2>2. QED
    BY <1>9, <2>1
<1> DEFINE P == {k \in 0 .. n : after[k] \in Walks /\ WalkedTo(after[k], reg, table, k)}
<1>11. 0 \in P
  <2>1. start.registry = reg /\ start.ids = <<>> /\ start.ok /\ Len(<<>>) = 0 /\ 1 .. 0 = {}
    BY DEF start
  <2>2. WalkedTo(start, reg, table, 0)
    BY <2>1, GrowsItself DEF WalkedTo
  <2>3. QED
    BY <1>1, <1>2, <1>10, <2>2
<1>12. ASSUME NEW k \in 1 .. n, k - 1 \in P PROVE k \in P
  <2>1. k \in 0 .. n /\ after[k - 1] \in Walks /\ WalkedTo(after[k - 1], reg, table, k - 1)
    BY <1>1, <1>12
  <2>2. after[k] = Entered(after[k - 1], table[k])
    BY <1>10
  <2>3. after[k] \in Walks
    BY <1>1, <2>1, <2>2, EnteredType
  <2>4. WalkedTo(after[k], reg, table, k)
    BY <2>1, <2>2, WalkNext DEF n
  <2>5. QED
    BY <2>1, <2>3, <2>4
<1> HIDE DEF P
<1>13. \A k \in 0 .. n : k \in P
  BY <1>1, <1>11, <1>12, NatUpTo
<1>14. after[n] \in Walks /\ WalkedTo(after[n], reg, table, n)
  <2>1. n \in P
    BY <1>1, <1>13
  <2>2. QED
    BY <2>1 DEF P
<1>15. QED
  BY <1>4, <1>14 DEF n

-----------------------------------------------------------------------------
(* Files.                                                                    *)

Columns == Seq([ts : FileTimes, px : FilePrices])
Days    == [date : Nat, instruments : Seq(Nat), column : Seq(Columns)]

\* The instruments of a session are its registry's, each once, and have printed.
Fits(reg, d) ==
  /\ Len(d.column) = Len(d.instruments)
  /\ \A k \in 1 .. Len(d.instruments) :
       /\ d.instruments[k] \in DOMAIN reg /\ d.instruments[k] = IdOf(reg, reg[d.instruments[k]])
       /\ d.column[k] # <<>>
  /\ \A j, k \in 1 .. Len(d.instruments) : d.instruments[j] = d.instruments[k] => j = k

\* What has been written, and the files made of it.
Written == {w \in [home : Seq(Specs), day : Days] : Fits(w.home, w.day)}

Made(w, sound) == [FileOf(w.home, w.day) EXCEPT !.sound = sound]
Files == {Made(w, TRUE) : w \in Written} \cup {Made(w, FALSE) : w \in Written}

\* What a file has of the session it was made of.
LEMMA MadeFields ==
  ASSUME NEW w \in Written, NEW sound
  PROVE  LET f == Made(w, sound)
         IN  /\ f.date = w.day.date /\ f.column = w.day.column /\ f.sound = sound
             /\ f.rows = TotalOf(w.day.column) /\ f.timeline = TimelineOf(w.day.column)
             /\ f.table \in Seq(Specs) /\ Len(f.table) = Len(w.day.instruments) /\ AllDiffer(f.table)
             /\ \A k \in 1 .. Len(f.table) : f.table[k] = w.home[w.day.instruments[k]]
<1> DEFINE f     == Made(w, sound)
           ids   == w.day.instruments
           n     == Len(ids)
           table == [k \in DOMAIN ids |-> w.home[ids[k]]]
<1>1. w.home \in Seq(Specs) /\ ids \in Seq(Nat) /\ Fits(w.home, w.day)
  BY DEF Written, Days
<1>2. n \in Nat /\ DOMAIN ids = 1 .. n
  BY <1>1
<1>3. \A k \in 1 .. n : ids[k] \in DOMAIN w.home /\ ids[k] = IdOf(w.home, w.home[ids[k]])
  BY DEF Written, Fits
<1>4. f.date = w.day.date /\ f.column = w.day.column /\ f.sound = sound
      /\ f.rows = TotalOf(w.day.column) /\ f.timeline = TimelineOf(w.day.column) /\ f.table = table
  BY DEF Made, FileOf
<1> HIDE DEF f, ids, n
<1>5. \A k \in 1 .. n : w.home[ids[k]] \in Specs
  BY <1>1, <1>3
<1>6. table \in Seq(Specs) /\ Len(table) = n /\ \A k \in 1 .. n : table[k] = w.home[ids[k]]
  BY <1>2, <1>5
<1> HIDE DEF table
<1>7. AllDiffer(table)
  <2> SUFFICES ASSUME NEW j \in 1 .. n, NEW k \in 1 .. n, KeyOf(table[j]) = KeyOf(table[k]) PROVE j = k
    BY <1>6 DEF AllDiffer
  <2>1. IdOf(w.home, table[j]) = IdOf(w.home, table[k])
    BY SameKey
  <2>2. ids[j] = ids[k]
    BY <1>3, <1>6, <2>1
  <2>3. QED
    BY <1>1, <2>2 DEF Fits, ids, n
<1>8. QED
  BY <1>4, <1>6, <1>7 DEF f, n, ids

\* A file that is sound opens, into any registry.
LEMMA SoundOpens ==
  ASSUME NEW w \in Written, NEW reg \in Seq(Specs)
  PROVE  LET f    == Made(w, TRUE)
             walk == Walked(reg, f.table)
             back == Opened(reg, f)
         IN  /\ back.ok /\ back.registry = walk.registry
             /\ back.session = [date |-> w.day.date, instruments |-> walk.ids, column |-> w.day.column,
                                timeline |-> TimelineOf(w.day.column)]
             /\ walk \in Walks /\ WalkedTo(walk, reg, f.table, Len(f.table))
<1> DEFINE f    == Made(w, TRUE)
           walk == Walked(reg, f.table)
<1>1. /\ f.date = w.day.date /\ f.column = w.day.column /\ f.sound /\ f.rows = TotalOf(f.column)
      /\ f.timeline = TimelineOf(w.day.column) /\ f.table \in Seq(Specs) /\ AllDiffer(f.table)
  <2>1. /\ f.date = w.day.date /\ f.column = w.day.column /\ f.sound = TRUE /\ f.rows = TotalOf(w.day.column)
        /\ f.timeline = TimelineOf(w.day.column) /\ f.table \in Seq(Specs) /\ AllDiffer(f.table)
    BY MadeFields
  <2> HIDE DEF f
  <2>2. QED
    BY <2>1
<1> HIDE DEF f
<1>2. walk \in Walks /\ WalkedTo(walk, reg, f.table, Len(f.table))
  BY <1>1, WalkEnds
<1>3. walk.ok
  BY <1>2 DEF WalkedTo
<1> HIDE DEF walk
<1> DEFINE good == walk.ok /\ TotalOf(f.column) = f.rows
           back == [date |-> f.date, instruments |-> walk.ids, column |-> f.column, timeline |-> f.timeline]
<1>4. Opened(reg, f) = [ok |-> good, registry |-> walk.registry, session |-> back]
  BY <1>1 DEF Opened, walk
<1>5. good /\ back = [date |-> w.day.date, instruments |-> walk.ids, column |-> w.day.column,
                      timeline |-> TimelineOf(w.day.column)]
  BY <1>1, <1>3
<1> HIDE DEF good, back
<1>6. Opened(reg, f).ok = good /\ Opened(reg, f).registry = walk.registry /\ Opened(reg, f).session = back
  BY <1>4
<1>7. QED
  BY <1>2, <1>5, <1>6 DEF f, walk

\* A file that is not is refused before it adds anything.
LEMMA UnsoundRefused ==
  ASSUME NEW w, NEW reg
  PROVE  ~Opened(reg, Made(w, FALSE)).ok /\ Opened(reg, Made(w, FALSE)).registry = reg
<1>1. ~Made(w, FALSE).sound
  BY DEF Made, FileOf
<1>2. Opened(reg, Made(w, FALSE)) = [ok |-> FALSE, registry |-> reg]
  BY <1>1 DEF Opened
<1> DEFINE refused == FALSE
           back    == Opened(reg, Made(w, FALSE))
<1>3. back = [ok |-> refused, registry |-> reg] /\ ~refused
  BY <1>2
<1> HIDE DEF refused, back
<1>4. back.ok = refused /\ back.registry = reg
  BY <1>3
<1>5. QED
  BY <1>3, <1>4 DEF back

-----------------------------------------------------------------------------
(* The files' invariants.                                                    *)

FileTypes ==
  /\ home \in Seq(Specs) /\ abroad \in Seq(Specs) /\ knew \in Seq(Specs)
  /\ day \in Days /\ Fits(home, day)
  /\ written \in Seq(Written) /\ disk \in Seq(Files) /\ Len(disk) = Len(written)
  /\ \A i \in 1 .. Len(disk) : disk[i] = Made(written[i], TRUE) \/ disk[i] = Made(written[i], FALSE)
  /\ \/ source = NoScan /\ abroad = <<>>
     \/ source.next \in 1 .. Len(disk) + 1 /\ day = NoDay

\* A date is served from the first sound file of it, and the others are problems.
Served(i) == disk[i].date \in DOMAIN source.opened /\ source.opened[disk[i].date].from = i

Accounted ==
  /\ DOMAIN source.opened = {disk[i].date : i \in {n \in 1 .. source.next - 1 : disk[n].sound}}
  /\ \A d \in DOMAIN source.opened :
       LET i == source.opened[d].from
       IN  /\ i \in 1 .. source.next - 1 /\ disk[i].sound /\ disk[i].date = d
           /\ \A n \in 1 .. i - 1 : ~(disk[n].sound /\ disk[n].date = d)
  /\ source.problems = {i \in 1 .. source.next - 1 : ~Served(i)}

\* Where a contract of the reader's registry comes from.
Provenance ==
  \A id \in DOMAIN abroad :
    \/ IsKnown(knew, abroad[id])
    \/ \E i \in 1 .. source.next - 1 : \E n \in DOMAIN disk[i].table : KeyOf(disk[i].table[n]) = KeyOf(abroad[id])

\* A contract is found under an id, with the lot it was written with or one the
\* reader had, or had read, before.
Found(i, spec, id) ==
  /\ IsKnown(abroad, spec) /\ id = IdOf(abroad, spec)
  /\ \/ abroad[id].lot = spec.lot
     \/ IsKnown(knew, spec)
     \/ \E j \in 1 .. i - 1 : \E n \in DOMAIN disk[j].table : KeyOf(disk[j].table[n]) = KeyOf(spec)

\* A session has the columns written, under the ids of the reader's registry.
Reloads(back, i) ==
  /\ back.date = written[i].day.date /\ back.column = written[i].day.column
  /\ back.timeline = TimelineOf(written[i].day.column)
  /\ back.instruments \in Seq(Nat) /\ Len(back.instruments) = Len(disk[i].table)
  /\ \A k \in 1 .. Len(disk[i].table) : Found(i, disk[i].table[k], back.instruments[k])

SessionsReload == \A d \in DOMAIN source.opened : Reloads(source.opened[d].session, source.opened[d].from)

ScanInv == Accounted /\ Provenance /\ SessionsReload

-----------------------------------------------------------------------------
(* A scan that has not begun, or just has.                                   *)

Fresh ==
  /\ source.opened = <<>> /\ source.problems = {} /\ source.next \in {0, 1}
  /\ \A id \in DOMAIN abroad : IsKnown(knew, abroad[id])

\* Such a scan has served nothing, and knows only what the reader began with.
LEMMA EmptyScan == Fresh => ScanInv
<1> SUFFICES ASSUME Fresh PROVE ScanInv
  OBVIOUS
<1> USE DEF Fresh
<1>1. DOMAIN source.opened = {} /\ 1 .. source.next - 1 = {}
  OBVIOUS
<1>2. Accounted
  BY <1>1 DEF Accounted
<1>3. Provenance
  BY DEF Provenance
<1>4. SessionsReload
  BY <1>1 DEF SessionsReload
<1>5. QED
  BY <1>2, <1>3, <1>4 DEF ScanInv

LEMMA FileInitTypes == FileInit => FileTypes /\ ScanInv
<1> SUFFICES ASSUME FileInit PROVE FileTypes /\ ScanInv
  OBVIOUS
<1>1. /\ home = <<>> /\ day = NoDay /\ disk = <<>> /\ abroad = <<>> /\ knew = <<>> /\ written = <<>>
      /\ source = NoScan
  BY DEF FileInit
<1>2. NoDay.instruments = <<>> /\ NoDay.column = <<>> /\ NoDay \in Days
  BY DEF NoDay, Days, NoDate
<1>3. Len(<<>>) = 0 /\ 1 .. 0 = {}
  OBVIOUS
<1>4. Fits(home, day)
  BY <1>1, <1>2, <1>3 DEF Fits
<1>5. FileTypes
  BY <1>1, <1>2, <1>3, <1>4 DEF FileTypes
<1>6. source.opened = <<>> /\ source.problems = {} /\ source.next = 0 /\ DOMAIN abroad = {}
  BY <1>1 DEF NoScan
<1>7. ScanInv
  BY <1>6, EmptyScan DEF Fresh
<1>8. QED
  BY <1>5, <1>7

\* What a session of a file has in a larger registry.
LEMMA ReloadsStill ==
  ASSUME NEW back, NEW i, Reloads(back, i), Grows(abroad, abroad'),
         disk' = disk, written' = written, knew' = knew
  PROVE  \A b, j : b = back /\ j = i => Reloads(b, j)'
<1> SUFFICES ASSUME NEW b, NEW j, b = back, j = i PROVE Reloads(b, j)'
  OBVIOUS
<1>1. /\ b.date = written[j].day.date /\ b.column = written[j].day.column
      /\ b.timeline = TimelineOf(written[j].day.column)
      /\ b.instruments \in Seq(Nat) /\ Len(b.instruments) = Len(disk[j].table)
  BY DEF Reloads
<1>2. ASSUME NEW k \in 1 .. Len(disk[j].table), NEW spec, spec = disk[j].table[k],
             NEW id, id = b.instruments[k]
      PROVE  Found(j, spec, id)'
  <2> DEFINE told == \E m \in 1 .. j - 1 : \E n \in DOMAIN disk[m].table : KeyOf(disk[m].table[n]) = KeyOf(spec)
  <2>1. /\ IsKnown(abroad, spec) /\ id = IdOf(abroad, spec)
        /\ abroad[id].lot = spec.lot \/ IsKnown(knew, spec) \/ told
    BY <1>2 DEF Reloads, Found
  <2>2. IsKnown(abroad', spec) /\ IdOf(abroad', spec) = IdOf(abroad, spec)
    BY <2>1, IdKept
  <2>3. id \in DOMAIN abroad
    BY <2>1, IdFound
  <2>4. abroad'[id] = abroad[id]
    BY <2>3 DEF Grows
  <2>5. told' <=> told
    OBVIOUS
  <2> HIDE DEF told
  <2>6. /\ IsKnown(abroad', spec) /\ id = IdOf(abroad', spec)
        /\ abroad'[id].lot = spec.lot \/ IsKnown(knew', spec) \/ told'
    BY <2>1, <2>2, <2>4, <2>5
  <2>7. QED
    BY <2>6 DEF Found, told
<1>3. QED
  BY <1>1, <1>2 DEF Reloads

\* Nothing a scan is told by changes while it stands still.
LEMMA Stands ==
  ASSUME ScanInv, UNCHANGED <<disk, abroad, source, written, knew>>
  PROVE  ScanInv'
<1>1. disk' = disk /\ abroad' = abroad /\ source' = source /\ written' = written /\ knew' = knew
  OBVIOUS
<1>2. Accounted'
  BY <1>1 DEF ScanInv, Accounted, Served
<1>3. Provenance'
  BY <1>1 DEF ScanInv, Provenance
<1>4. ASSUME NEW d \in DOMAIN source.opened, NEW kept, kept = source.opened[d]
      PROVE  Reloads(kept.session, kept.from)'
  <2>1. Reloads(kept.session, kept.from)
    BY <1>4 DEF ScanInv, SessionsReload
  <2>2. \A b, j : b = kept.session /\ j = kept.from => Reloads(b, j)'
    BY <1>1, <2>1, GrowsItself, ReloadsStill
  <2>3. QED
    BY <2>2
<1>5. SessionsReload'
  BY <1>1, <1>4 DEF SessionsReload
<1>6. QED
  BY <1>2, <1>3, <1>5 DEF ScanInv

\* The files, one for each session written.
LEMMA DiskTyped ==
  ASSUME FileTypes
  PROVE  /\ disk \in Seq(Files) /\ written \in Seq(Written) /\ Len(disk) = Len(written) /\ Len(disk) \in Nat
         /\ DOMAIN disk = 1 .. Len(disk)
         /\ \A i \in 1 .. Len(disk) : disk[i] = Made(written[i], TRUE) \/ disk[i] = Made(written[i], FALSE)
<1>1. disk \in Seq(Files) /\ written \in Seq(Written) /\ Len(disk) = Len(written)
  BY DEF FileTypes
<1>2. \A i \in 1 .. Len(disk) : disk[i] = Made(written[i], TRUE) \/ disk[i] = Made(written[i], FALSE)
  BY DEF FileTypes
<1>3. Len(disk) \in Nat /\ DOMAIN disk = 1 .. Len(disk)
  BY <1>1
<1>4. QED
  BY <1>1, <1>2, <1>3

\* What is of a file.
LEMMA OnDisk ==
  ASSUME FileTypes, NEW i \in 1 .. Len(disk)
  PROVE  /\ written[i] \in Written /\ disk[i].date = written[i].day.date
         /\ disk[i].table \in Seq(Specs) /\ AllDiffer(disk[i].table)
         /\ Len(disk[i].table) = Len(written[i].day.instruments)
         /\ \A k \in 1 .. Len(disk[i].table) : disk[i].table[k] = written[i].home[written[i].day.instruments[k]]
         /\ disk[i] = Made(written[i], disk[i].sound) /\ disk[i].sound \in BOOLEAN
<1>1. written[i] \in Written
  BY DEF FileTypes
<1>2. PICK b \in {TRUE, FALSE} : disk[i] = Made(written[i], b)
  BY DEF FileTypes
<1>3. disk[i].sound = b
  BY <1>1, <1>2, MadeFields
<1>4. disk[i] = Made(written[i], disk[i].sound) /\ disk[i].sound \in BOOLEAN
  BY <1>2, <1>3
<1>5. QED
  BY <1>1, <1>2, <1>4, MadeFields

-----------------------------------------------------------------------------
(* Writing.                                                                  *)

\* A print keeps a session fitting its registry: a new contract comes last and has an id of its own.
LEMMA PrintedFits ==
  ASSUME FileTypes, Printed
  PROVE  home' \in Seq(Specs) /\ day' \in Days /\ Fits(home', day') /\ day # NoDay
<1>1. PICK spec \in Listed, t \in FileTimes, p \in FilePrices :
        LET id   == IdOf(home', spec)
            old  == ColumnIn(day, id)
            row  == [ts |-> t, px |-> p]
        IN  /\ home' = Added(home, spec)
            /\ day' = IF old = <<>>
                      THEN [day EXCEPT !.instruments = Append(@, id), !.column = Append(@, <<row>>)]
                      ELSE [day EXCEPT !.column =
                              [k \in DOMAIN @ |-> IF day.instruments[k] = id THEN Append(@[k], row) ELSE @[k]]]
  BY DEF Printed
<1> DEFINE id  == IdOf(home', spec)
           row == [ts |-> t, px |-> p]
           ids == day.instruments
           n   == Len(day.instruments)
<1>2. spec \in Specs /\ row \in [ts : FileTimes, px : FilePrices] /\ <<row>> \in Columns
  BY DEF Specs, Columns
<1>3. /\ home \in Seq(Specs) /\ day \in Days /\ Fits(home, day) /\ ids \in Seq(Nat) /\ day.column \in Seq(Columns)
      /\ n \in Nat /\ DOMAIN ids = 1 .. n /\ DOMAIN day.column = 1 .. n /\ Len(day.column) = n
  BY DEF FileTypes, Days, Fits
<1>4. home' \in Seq(Specs) /\ Grows(home, home') /\ IsKnown(home', spec)
  BY <1>1, <1>2, <1>3, AddedGrows
<1>5. id \in Nat /\ id \in DOMAIN home' /\ KeyOf(home'[id]) = KeyOf(spec)
  <2>1. id \in DOMAIN home' /\ KeyOf(home'[id]) = KeyOf(spec)
    BY <1>4, IdFound
  <2> HIDE DEF id
  <2>2. id \in Nat
    BY <1>4, <2>1
  <2>3. QED
    BY <2>1, <2>2
<1>6. id = IdOf(home', home'[id])
  BY <1>5, SameKey
<1>7. \A k \in 1 .. n : ids[k] \in DOMAIN home' /\ ids[k] = IdOf(home', home'[ids[k]]) /\ day.column[k] # <<>>
  <2> SUFFICES ASSUME NEW k \in 1 .. n
               PROVE  ids[k] \in DOMAIN home' /\ ids[k] = IdOf(home', home'[ids[k]]) /\ day.column[k] # <<>>
    OBVIOUS
  <2>1. ids[k] \in DOMAIN home /\ ids[k] = IdOf(home, home[ids[k]]) /\ day.column[k] # <<>>
    BY <1>3 DEF Fits
  <2>2. ids[k] \in DOMAIN home' /\ home'[ids[k]] = home[ids[k]]
    BY <1>4, <2>1 DEF Grows
  <2>3. IsKnown(home, home[ids[k]])
    <3>1. ids[k] \in KnownAs(home, home[ids[k]])
      BY <2>1 DEF KnownAs
    <3>2. QED
      BY <3>1 DEF IsKnown
  <2>4. IdOf(home', home[ids[k]]) = IdOf(home, home[ids[k]])
    BY <1>4, <2>3, IdKept
  <2>5. QED
    BY <2>1, <2>2, <2>4
<1>8. \A j, k \in 1 .. n : ids[j] = ids[k] => j = k
  BY <1>3 DEF Fits
<1>9. day # NoDay
  BY DEF Printed
<1>10. CASE ColumnIn(day, id) = <<>>
  <2>1. \A k \in 1 .. n : ids[k] # id
    <3> SUFFICES ASSUME NEW k \in 1 .. n, ids[k] = id PROVE FALSE
      OBVIOUS
    <3> DEFINE places == {j \in DOMAIN ids : ids[j] = id}
    <3>1. k \in places /\ (CHOOSE j \in places : TRUE) \in 1 .. n
      BY <1>3
    <3>2. ColumnIn(day, id) = day.column[CHOOSE j \in places : TRUE]
      BY <3>1 DEF ColumnIn
    <3> HIDE DEF places, id
    <3>3. QED
      BY <1>7, <1>10, <3>1, <3>2
  <2> HIDE DEF id, row
  <2> DEFINE newIds == Append(ids, id)
             newCols == Append(day.column, <<row>>)
  <2>2. day' = [day EXCEPT !.instruments = newIds, !.column = newCols]
    BY <1>1, <1>10 DEF id, row
  <2>3. /\ newIds \in Seq(Nat) /\ Len(newIds) = n + 1 /\ newIds[n + 1] = id
        /\ \A k \in 1 .. n : newIds[k] = ids[k]
    BY <1>3, <1>5
  <2>4. /\ newCols \in Seq(Columns) /\ Len(newCols) = n + 1 /\ newCols[n + 1] = <<row>>
        /\ \A k \in 1 .. n : newCols[k] = day.column[k]
    BY <1>2, <1>3
  <2> HIDE DEF newIds, newCols, ids, n
  <2>5. day' \in Days /\ day'.instruments = newIds /\ day'.column = newCols
    BY <1>3, <2>2, <2>3, <2>4 DEF Days
  <2>6. \A k \in 1 .. n + 1 : k = n + 1 \/ k \in 1 .. n
    BY <1>3
  <2>7. <<row>> # <<>>
    OBVIOUS
  <2>8. \A k \in 1 .. n + 1 : newIds[k] \in DOMAIN home' /\ newIds[k] = IdOf(home', home'[newIds[k]]) /\ newCols[k] # <<>>
    BY <1>5, <1>6, <1>7, <2>3, <2>4, <2>6, <2>7
  <2>9. \A j, k \in 1 .. n + 1 : newIds[j] = newIds[k] => j = k
    BY <1>8, <2>1, <2>3, <2>6
  <2>10. Fits(home', day')
    BY <2>3, <2>4, <2>5, <2>8, <2>9 DEF Fits
  <2>11. QED
    BY <1>4, <1>9, <2>5, <2>10
<1>11. CASE ColumnIn(day, id) # <<>>
  <2> HIDE DEF id, row
  <2> DEFINE newCols == [k \in DOMAIN day.column |-> IF ids[k] = id THEN Append(day.column[k], row) ELSE day.column[k]]
  <2>1. day' = [day EXCEPT !.column = newCols]
    BY <1>1, <1>11 DEF id, row
  <2>2. \A k \in 1 .. n : day.column[k] \in Columns
    BY <1>3
  <2>3. \A k \in 1 .. n : Append(day.column[k], row) \in Columns /\ Append(day.column[k], row) # <<>>
    <3> DEFINE Row == [ts : FileTimes, px : FilePrices]
    <3> SUFFICES ASSUME NEW k \in 1 .. n
                 PROVE  Append(day.column[k], row) \in Seq(Row) /\ Append(day.column[k], row) # <<>>
      BY DEF Columns
    <3>1. day.column[k] \in Seq(Row) /\ row \in Row
      BY <1>2, <2>2 DEF Columns
    <3> HIDE DEF Row
    <3>2. QED
      BY <3>1
  <2> HIDE DEF ids, n
  <2>4. newCols \in Seq(Columns) /\ Len(newCols) = n /\ \A k \in 1 .. n : newCols[k] # <<>>
    <3>1. \A k \in 1 .. n : newCols[k] \in Columns /\ newCols[k] # <<>>
      BY <1>3, <1>7, <2>2, <2>3
    <3>2. newCols \in [1 .. n -> Columns]
      BY <1>3, <3>1
    <3> HIDE DEF newCols
    <3>3. newCols \in Seq(Columns) /\ Len(newCols) = n
      BY <1>3, <3>2
    <3>4. QED
      BY <3>1, <3>3
  <2> HIDE DEF newCols
  <2>5. day' \in Days /\ day'.instruments = ids /\ day'.column = newCols
    BY <1>3, <2>1, <2>4 DEF Days, ids
  <2>6. Fits(home', day')
    BY <1>3, <1>7, <1>8, <2>4, <2>5 DEF Fits, n, ids
  <2>7. QED
    BY <1>4, <1>9, <2>5, <2>6
<1>12. QED
  BY <1>10, <1>11

\* The same of the state a step leads to.
LEMMA FreshNext == Fresh' => ScanInv'
BY EmptyScan, PTL

LEMMA StartDayFits ==
  ASSUME FileTypes, StartDay
  PROVE  home' \in Seq(Specs) /\ day' \in Days /\ Fits(home', day')
<1>1. PICK d \in FileDates : day' = [NoDay EXCEPT !.date = d]
  BY DEF StartDay
<1>2. d \in Nat
  BY DayFileAssumption
<1>3. day' = [date |-> d, instruments |-> <<>>, column |-> <<>>]
  BY <1>1 DEF NoDay
<1>4. home' \in Seq(Specs)
  BY ForeignTyped DEF StartDay
<1>5. day' \in Days /\ day'.instruments = <<>> /\ day'.column = <<>>
  BY <1>2, <1>3 DEF Days
<1>6. Fits(home', day')
  <2>1. Len(<<>>) = 0 /\ 1 .. 0 = {}
    OBVIOUS
  <2>2. QED
    BY <1>5, <2>1 DEF Fits
<1>7. QED
  BY <1>4, <1>5, <1>6

\* While a session is put together nothing is read.
LEMMA PutTogether ==
  ASSUME FileTypes, ScanInv, StartDay \/ Printed
  PROVE  FileTypes' /\ ScanInv'
<1>1. home' \in Seq(Specs) /\ day' \in Days /\ Fits(home', day')
  BY StartDayFits, PrintedFits
<1>2. disk' = disk /\ abroad' = abroad /\ source' = source /\ written' = written /\ knew' = knew
  BY DEF StartDay, Printed
<1>3. source = NoScan /\ abroad = <<>>
  <2>1. source = NoScan \/ day # NoDay
    BY DEF StartDay, Printed
  <2>2. source = NoScan => ~(source.next \in 1 .. Len(disk) + 1)
    BY DEF NoScan
  <2>3. QED
    BY <2>1, <2>2 DEF FileTypes
<1>4. FileTypes'
  BY <1>1, <1>2, <1>3 DEF FileTypes
<1>5. ScanInv'
  BY <1>2, Stands
<1>6. QED
  BY <1>4, <1>5

LEMMA WriteDayKeeps ==
  ASSUME FileTypes, WriteDay
  PROVE  FileTypes' /\ ScanInv'
<1> DEFINE w == [home |-> home, day |-> day]
           f == FileOf(home, day)
<1>1. home' = home /\ day' = NoDay /\ abroad' = abroad /\ source' = source /\ knew' = knew
      /\ disk' = Append(disk, f) /\ written' = Append(written, w)
  BY DEF WriteDay
<1>2. w \in Written
  BY DEF FileTypes, Written
<1>3. f = Made(w, TRUE)
  <2> DEFINE yes == TRUE
  <2>1. Made(w, TRUE) = [f EXCEPT !.sound = yes]
    BY DEF Made
  <2> DEFINE table == [k \in DOMAIN day.instruments |-> home[day.instruments[k]]]
             total == TotalOf(day.column)
             times == TimelineOf(day.column)
  <2>2. f = [date |-> day.date, table |-> table, column |-> day.column, rows |-> total, timeline |-> times,
             sound |-> yes]
    BY DEF FileOf
  <2> HIDE DEF f, table, total, times, yes
  <2>3. [f EXCEPT !.sound = yes] = f
    BY <2>2
  <2>4. QED
    BY <2>1, <2>3
<1>4. f \in Files
  BY <1>2, <1>3 DEF Files
<1>5. source = NoScan /\ abroad = <<>>
  BY DEF FileTypes, WriteDay
<1> HIDE DEF w, f
<1>6. /\ disk \in Seq(Files) /\ written \in Seq(Written) /\ Len(disk) = Len(written) /\ Len(disk) \in Nat
      /\ DOMAIN disk = 1 .. Len(disk)
      /\ \A i \in 1 .. Len(disk) : disk[i] = Made(written[i], TRUE) \/ disk[i] = Made(written[i], FALSE)
  BY DiskTyped
<1>7. /\ disk' \in Seq(Files) /\ Len(disk') = Len(disk) + 1 /\ disk'[Len(disk) + 1] = f
      /\ \A i \in 1 .. Len(disk) : disk'[i] = disk[i]
  BY <1>1, <1>4, <1>6
<1>8. /\ written' \in Seq(Written) /\ Len(written') = Len(disk) + 1 /\ written'[Len(disk) + 1] = w
      /\ \A i \in 1 .. Len(disk) : written'[i] = written[i]
  BY <1>1, <1>2, <1>6
<1>9. \A i \in 1 .. Len(disk') : disk'[i] = Made(written'[i], TRUE) \/ disk'[i] = Made(written'[i], FALSE)
  <2>1. \A i \in 1 .. Len(disk) + 1 : i = Len(disk) + 1 \/ i \in 1 .. Len(disk)
    BY <1>6
  <2>2. QED
    BY <1>3, <1>6, <1>7, <1>8, <2>1
<1>10. NoDay \in Days /\ Fits(home, NoDay)
  <2>1. NoDay = [date |-> 0, instruments |-> <<>>, column |-> <<>>] /\ Len(<<>>) = 0 /\ 1 .. 0 = {}
    BY DEF NoDay, NoDate
  <2>2. QED
    BY <2>1 DEF Days, Fits
<1>11. FileTypes'
  BY <1>1, <1>5, <1>7, <1>8, <1>9, <1>10 DEF FileTypes
<1>12. ScanInv'
  BY <1>1, <1>5, FreshNext DEF Fresh, NoScan
<1>13. QED
  BY <1>11, <1>12

LEMMA SpoilKeeps ==
  ASSUME FileTypes, Spoil
  PROVE  FileTypes' /\ ScanInv'
<1>1. home' = home /\ day' = day /\ abroad' = abroad /\ source' = source /\ knew' = knew /\ written' = written
  BY DEF Spoil
<1>2. PICK i \in DOMAIN disk : disk' = [disk EXCEPT ![i].sound = FALSE]
  BY DEF Spoil
<1> DEFINE f == Made(written[i], FALSE)
<1>3. /\ disk \in Seq(Files) /\ written \in Seq(Written) /\ Len(disk) = Len(written) /\ Len(disk) \in Nat
      /\ DOMAIN disk = 1 .. Len(disk)
      /\ \A k \in 1 .. Len(disk) : disk[k] = Made(written[k], TRUE) \/ disk[k] = Made(written[k], FALSE)
  BY DiskTyped
<1>4. [disk[i] EXCEPT !.sound = FALSE] = f
  <2>1. PICK b \in {TRUE, FALSE} : disk[i] = Made(written[i], b)
    BY <1>3
  <2>2. [Made(written[i], b) EXCEPT !.sound = FALSE] = Made(written[i], FALSE)
    BY DEF Made, FileOf
  <2>3. QED
    BY <2>1, <2>2
<1>5. disk' = [disk EXCEPT ![i] = f]
  BY <1>2, <1>4
<1>6. f \in Files
  <2>1. written[i] \in Written
    BY <1>3
  <2>2. QED
    BY <2>1 DEF Files
<1> HIDE DEF f
<1>7. disk' \in Seq(Files) /\ Len(disk') = Len(disk) /\ \A k \in 1 .. Len(disk) : disk'[k] = IF k = i THEN f ELSE disk[k]
  BY <1>3, <1>5, <1>6
<1>8. \A k \in 1 .. Len(disk') : disk'[k] = Made(written[k], TRUE) \/ disk'[k] = Made(written[k], FALSE)
  BY <1>3, <1>7 DEF f
<1>9. source = NoScan /\ abroad = <<>>
  <2>1. source = NoScan
    BY DEF Spoil
  <2>2. ~(source.next \in 1 .. Len(disk) + 1)
    BY <2>1 DEF NoScan
  <2>3. QED
    BY <2>1, <2>2 DEF FileTypes
<1>10. FileTypes'
  BY <1>1, <1>3, <1>7, <1>8, <1>9 DEF FileTypes
<1>11. ScanInv'
  BY <1>1, <1>9, FreshNext DEF Fresh, NoScan
<1>12. QED
  BY <1>10, <1>11

-----------------------------------------------------------------------------
(* Reading.                                                                  *)

LEMMA StartScanKeeps ==
  ASSUME FileTypes, StartScan
  PROVE  FileTypes' /\ ScanInv'
<1>1. home' = home /\ day' = day /\ day = NoDay /\ disk' = disk /\ written' = written /\ disk # <<>>
      /\ abroad' \in Foreign /\ knew' = abroad'
  BY DEF StartScan
<1>2. source' = [next |-> 1, opened |-> <<>>, problems |-> {}]
  BY DEF StartScan, NoScan
<1>3. abroad' \in Seq(Specs)
  BY <1>1, ForeignTyped
<1>4. source'.next = 1 /\ source'.opened = <<>> /\ source'.problems = {}
  BY <1>2
<1>5. 1 \in 1 .. Len(disk') + 1
  <2>1. Len(disk) \in Nat
    BY DEF FileTypes
  <2>2. QED
    BY <1>1, <2>1
<1>6. \A id \in DOMAIN abroad' : IsKnown(knew', abroad'[id])
  <2>1. \A id \in DOMAIN abroad' : id \in KnownAs(abroad', abroad'[id])
    BY DEF KnownAs
  <2>2. QED
    BY <1>1, <2>1 DEF IsKnown
<1>7. FileTypes'
  BY <1>1, <1>3, <1>4, <1>5 DEF FileTypes
<1>8. ScanInv'
  BY <1>4, <1>6, FreshNext DEF Fresh
<1>9. QED
  BY <1>7, <1>8

\* The next file of the scan: what it leaves of the registry, and the session it has.
LEMMA Scanned ==
  ASSUME FileTypes, ScanInv, source.next \in 1 .. Len(disk)
  PROVE  LET i    == source.next
             back == Opened(abroad, disk[i])
             walk == Walked(abroad, disk[i].table)
         IN  /\ back.ok <=> disk[i].sound
             /\ back.registry \in Seq(Specs) /\ Grows(abroad, back.registry)
             /\ \A id \in DOMAIN back.registry :
                  id \in DOMAIN abroad \/ \E k \in DOMAIN disk[i].table : back.registry[id] = disk[i].table[k]
             /\ disk[i].sound =>
                  /\ back.session = [date |-> written[i].day.date, instruments |-> walk.ids,
                                     column |-> written[i].day.column,
                                     timeline |-> TimelineOf(written[i].day.column)]
                  /\ back.registry = walk.registry /\ walk \in Walks
                  /\ WalkedTo(walk, abroad, disk[i].table, Len(disk[i].table))
<1> DEFINE i    == source.next
           w    == written[i]
           f    == disk[i]
           back == Opened(abroad, f)
           walk == Walked(abroad, f.table)
<1>1. w \in Written /\ f = Made(w, f.sound) /\ f.sound \in BOOLEAN /\ f.table \in Seq(Specs)
  BY OnDisk
<1>2. abroad \in Seq(Specs)
  BY DEF FileTypes
<1> HIDE DEF i, w, f
<1>3. CASE f.sound
  <2>1. f = Made(w, TRUE)
    BY <1>1, <1>3
  <2>2. /\ back.ok /\ back.registry = walk.registry
        /\ back.session = [date |-> w.day.date, instruments |-> walk.ids, column |-> w.day.column,
                           timeline |-> TimelineOf(w.day.column)]
        /\ walk \in Walks /\ WalkedTo(walk, abroad, f.table, Len(f.table))
    BY <1>1, <1>2, <2>1, SoundOpens
  <2> HIDE DEF back, walk
  <2>3. back.registry \in Seq(Specs) /\ Grows(abroad, back.registry)
    BY <2>2 DEF Walks, WalkedTo
  <2>4. \A id \in DOMAIN back.registry :
          id \in DOMAIN abroad \/ \E k \in DOMAIN f.table : back.registry[id] = f.table[k]
    <3>1. DOMAIN f.table = 1 .. Len(f.table)
      BY <1>1
    <3>2. QED
      BY <2>2, <3>1 DEF WalkedTo
  <2>5. QED
    BY <1>3, <2>2, <2>3, <2>4 DEF back, walk, i, f, w
<1>4. CASE ~f.sound
  <2>1. f = Made(w, FALSE)
    BY <1>1, <1>4
  <2>2. ~back.ok /\ back.registry = abroad
    BY <2>1, UnsoundRefused
  <2> HIDE DEF back, walk
  <2>3. QED
    BY <1>2, <1>4, <2>2, GrowsItself DEF back, walk, i, f, w
<1>5. QED
  BY <1>3, <1>4

\* What a step of the scan does, for the lemmas below.
LEMMA ScanFileStep ==
  ASSUME FileTypes, ScanInv, ScanFile
  PROVE  LET i    == source.next
             back == Opened(abroad, disk[i])
             keep == disk[i].sound /\ disk[i].date \notin DOMAIN source.opened
         IN  /\ i \in 1 .. Len(disk) /\ Len(disk) \in Nat /\ day = NoDay
             /\ abroad' = back.registry /\ source'.next = i + 1
             /\ keep  => /\ DOMAIN source'.opened = DOMAIN source.opened \cup {disk[i].date}
                         /\ source'.opened[disk[i].date] = [from |-> i, session |-> back.session]
                         /\ \A d \in DOMAIN source.opened : source'.opened[d] = source.opened[d]
                         /\ source'.problems = source.problems
             /\ ~keep => source'.opened = source.opened /\ source'.problems = source.problems \cup {i}
             /\ home' = home /\ day' = day /\ disk' = disk /\ written' = written /\ knew' = knew
<1> DEFINE i      == source.next
           back   == Opened(abroad, disk[i])
           opened == source.opened
           date   == disk[i].date
           keep   == disk[i].sound /\ date \notin DOMAIN opened
           more   == [d \in DOMAIN opened \cup {date} |->
                        IF d = date THEN [from |-> i, session |-> back.session] ELSE opened[d]]
<1>1. Len(disk) \in Nat /\ DOMAIN disk = 1 .. Len(disk)
  BY DiskTyped
<1>2. i \in 1 .. Len(disk)
  BY <1>1 DEF ScanFile
<1>3. day = NoDay
  <2>1. source # NoScan
    BY <1>2 DEF NoScan
  <2>2. QED
    BY <2>1 DEF FileTypes
<1>4. back.ok <=> disk[i].sound
  BY <1>2, Scanned
<1> HIDE DEF back
<1>5. source' = [next |-> i + 1, opened |-> IF ~(back.ok /\ date \notin DOMAIN opened) THEN opened ELSE more,
               problems |-> IF back.ok /\ date \notin DOMAIN opened THEN source.problems ELSE source.problems \cup {i}]
  BY DEF ScanFile, Taken, back
<1>6. abroad' = back.registry /\ home' = home /\ day' = day /\ disk' = disk /\ written' = written /\ knew' = knew
  BY DEF ScanFile, back
<1>7. (back.ok /\ date \notin DOMAIN opened) <=> keep
  BY <1>4
<1>8. DOMAIN more = DOMAIN opened \cup {date} /\ more[date] = [from |-> i, session |-> back.session]
      /\ (date \notin DOMAIN opened => \A d \in DOMAIN opened : more[d] = opened[d])
  OBVIOUS
<1> HIDE DEF more
<1>9. source'.next = i + 1
  BY <1>5
<1>10. keep => source'.opened = more /\ source'.problems = source.problems
  BY <1>5, <1>7
<1>11. ~keep => source'.opened = opened /\ source'.problems = source.problems \cup {i}
  BY <1>5, <1>7
<1>12. QED
  BY <1>1, <1>2, <1>3, <1>6, <1>8, <1>9, <1>10, <1>11 DEF back

LEMMA ScanFileTypes ==
  ASSUME FileTypes, ScanInv, ScanFile
  PROVE  FileTypes'
<1> DEFINE i    == source.next
           back == Opened(abroad, disk[i])
<1>1. /\ i \in 1 .. Len(disk) /\ Len(disk) \in Nat /\ day = NoDay
      /\ abroad' = back.registry /\ source'.next = i + 1
      /\ home' = home /\ day' = day /\ disk' = disk /\ written' = written /\ knew' = knew
  BY ScanFileStep
<1>2. abroad' \in Seq(Specs)
  BY <1>1, Scanned
<1>3. source'.next \in 1 .. Len(disk') + 1
  BY <1>1
<1>4. QED
  BY <1>1, <1>2, <1>3 DEF FileTypes

\* One file more: it is served if it is sound and its date is free, else a problem.
LEMMA ScanFileAccounted ==
  ASSUME FileTypes, ScanInv, ScanFile
  PROVE  Accounted'
<1> DEFINE i      == source.next
           opened == source.opened
           date   == disk[i].date
           keep   == disk[i].sound /\ date \notin DOMAIN opened
           back   == Opened(abroad, disk[i])
           seen   == {disk[k].date : k \in {n \in 1 .. i - 1 : disk[n].sound}}
           now    == {disk[k].date : k \in {n \in 1 .. i : disk[n].sound}}
<1>1. /\ i \in Nat \ {0} /\ disk' = disk /\ source'.next - 1 = i
      /\ \A n : n \in 1 .. i <=> n \in 1 .. i - 1 \/ n = i
  <2>1. i \in 1 .. Len(disk) /\ Len(disk) \in Nat /\ source'.next = i + 1 /\ disk' = disk
    BY ScanFileStep
  <2> HIDE DEF i
  <2>2. QED
    BY <2>1
<1>2. /\ DOMAIN opened = seen
      /\ \A d \in DOMAIN opened :
           LET from == opened[d].from
           IN  /\ from \in 1 .. i - 1 /\ disk[from].sound /\ disk[from].date = d
               /\ \A n \in 1 .. from - 1 : ~(disk[n].sound /\ disk[n].date = d)
      /\ source.problems = {n \in 1 .. i - 1 : ~Served(n)}
  BY DEF ScanInv, Accounted
<1>3. now = seen \cup (IF disk[i].sound THEN {date} ELSE {})
  BY <1>1
<1>4. i \notin 1 .. i - 1
  BY <1>1
<1>5. CASE keep
  <2>1. /\ DOMAIN source'.opened = DOMAIN opened \cup {date}
        /\ source'.opened[date] = [from |-> i, session |-> back.session]
        /\ \A d \in DOMAIN opened : source'.opened[d] = opened[d]
        /\ source'.problems = source.problems
    BY <1>5, ScanFileStep
  <2> HIDE DEF i, back
  <2>2. DOMAIN source'.opened = now
    BY <1>2, <1>3, <1>5, <2>1
  <2>3. source'.opened[date].from = i
    BY <2>1
  <2>4. \A n \in 1 .. i - 1 : ~(disk[n].sound /\ disk[n].date = date)
    BY <1>2, <1>5
  <2>5. \A d \in DOMAIN source'.opened :
          LET from == source'.opened[d].from
          IN  /\ from \in 1 .. i /\ disk[from].sound /\ disk[from].date = d
              /\ \A n \in 1 .. from - 1 : ~(disk[n].sound /\ disk[n].date = d)
    <3> SUFFICES ASSUME NEW d \in DOMAIN source'.opened
                 PROVE  LET from == source'.opened[d].from
                        IN  /\ from \in 1 .. i /\ disk[from].sound /\ disk[from].date = d
                            /\ \A n \in 1 .. from - 1 : ~(disk[n].sound /\ disk[n].date = d)
      OBVIOUS
    <3>1. CASE d = date
      BY <1>1, <1>5, <2>3, <2>4, <3>1
    <3>2. CASE d \in DOMAIN opened
      BY <1>1, <1>2, <2>1, <3>2
    <3>3. QED
      BY <2>1, <3>1, <3>2
  <2>6. \A n \in 1 .. i - 1 : Served(n)' <=> Served(n)
    <3> SUFFICES ASSUME NEW n \in 1 .. i - 1 PROVE Served(n)' <=> Served(n)
      OBVIOUS
    <3>1. CASE disk[n].date = date
      BY <1>1, <1>4, <1>5, <2>3, <3>1 DEF Served
    <3>2. CASE disk[n].date # date
      BY <1>1, <2>1, <3>2 DEF Served
    <3>3. QED
      BY <3>1, <3>2
  <2>7. \A n : n = i => Served(n)'
    BY <1>1, <2>1, <2>3 DEF Served
  <2>8. source'.problems = {n \in 1 .. i : ~Served(n)'}
    BY <1>1, <1>2, <2>1, <2>6, <2>7
  <2>9. QED
    BY <1>1, <2>2, <2>5, <2>8 DEF Accounted
<1>6. CASE ~keep
  <2>1. source'.opened = opened /\ source'.problems = source.problems \cup {i}
    BY <1>6, ScanFileStep
  <2> HIDE DEF i
  <2>2. DOMAIN source'.opened = now
    BY <1>2, <1>3, <1>6, <2>1
  <2>3. \A d \in DOMAIN source'.opened :
          LET from == source'.opened[d].from
          IN  /\ from \in 1 .. i /\ disk[from].sound /\ disk[from].date = d
              /\ \A n \in 1 .. from - 1 : ~(disk[n].sound /\ disk[n].date = d)
    BY <1>1, <1>2, <2>1
  <2>4. \A n : Served(n)' <=> Served(n)
    BY <1>1, <2>1 DEF Served
  <2>5. ~Served(i)
    BY <1>2, <1>4 DEF Served
  <2>6. source'.problems = {n \in 1 .. i : ~Served(n)'}
    BY <1>1, <1>2, <2>1, <2>4, <2>5
  <2>7. QED
    BY <1>1, <2>2, <2>3, <2>6 DEF Accounted
<1>7. QED
  BY <1>5, <1>6

\* The contracts it adds are of its table.
LEMMA ScanFileProvenance ==
  ASSUME FileTypes, ScanInv, ScanFile
  PROVE  Provenance'
<1> DEFINE i    == source.next
           back == Opened(abroad, disk[i])
<1>1. /\ i \in 1 .. Len(disk) /\ Len(disk) \in Nat /\ abroad' = back.registry /\ source'.next = i + 1
      /\ disk' = disk /\ knew' = knew
  BY ScanFileStep
<1>2. Grows(abroad, abroad') /\ \A id \in DOMAIN abroad' :
        id \in DOMAIN abroad \/ \E k \in DOMAIN disk[i].table : abroad'[id] = disk[i].table[k]
  <2>1. Grows(abroad, back.registry)
    BY <1>1, Scanned
  <2>2. \A id \in DOMAIN back.registry :
          id \in DOMAIN abroad \/ \E k \in DOMAIN disk[i].table : back.registry[id] = disk[i].table[k]
    BY <1>1, Scanned
  <2> HIDE DEF back, i
  <2>3. QED
    BY <1>1, <2>1, <2>2
<1> HIDE DEF back
<1>3. i \in 1 .. source'.next - 1 /\ \A j \in 1 .. i - 1 : j \in 1 .. source'.next - 1
  <2> HIDE DEF i
  <2> QED
    BY <1>1
<1>4. SUFFICES ASSUME NEW id \in DOMAIN abroad'
               PROVE  \/ IsKnown(knew, abroad'[id])
                      \/ \E j \in 1 .. source'.next - 1 : \E n \in DOMAIN disk[j].table :
                           KeyOf(disk[j].table[n]) = KeyOf(abroad'[id])
  BY <1>1 DEF Provenance
<1>5. CASE id \in DOMAIN abroad
  <2>1. abroad'[id] = abroad[id]
    BY <1>2, <1>5 DEF Grows
  <2>2. \/ IsKnown(knew, abroad[id])
        \/ \E j \in 1 .. i - 1 : \E n \in DOMAIN disk[j].table : KeyOf(disk[j].table[n]) = KeyOf(abroad[id])
    BY <1>5 DEF ScanInv, Provenance
  <2>3. QED
    BY <1>3, <2>1, <2>2
<1>6. CASE \E k \in DOMAIN disk[i].table : abroad'[id] = disk[i].table[k]
  BY <1>3, <1>6
<1>7. QED
  BY <1>2, <1>5, <1>6

\* A contract the reader's registry had is one it began with or of an earlier file.
LEMMA KnownFrom ==
  ASSUME Provenance, NEW spec, IsKnown(abroad, spec)
  PROVE  \/ IsKnown(knew, spec)
         \/ \E j \in 1 .. source.next - 1 : \E n \in DOMAIN disk[j].table : KeyOf(disk[j].table[n]) = KeyOf(spec)
<1> DEFINE id == IdOf(abroad, spec)
<1>1. id \in DOMAIN abroad /\ KeyOf(abroad[id]) = KeyOf(spec)
  BY IdFound
<1> HIDE DEF id
<1>2. \/ IsKnown(knew, abroad[id])
      \/ \E j \in 1 .. source.next - 1 : \E n \in DOMAIN disk[j].table :
           KeyOf(disk[j].table[n]) = KeyOf(abroad[id])
  BY <1>1 DEF Provenance
<1>3. KnownAs(knew, abroad[id]) = KnownAs(knew, spec)
  BY <1>1, SameKey
<1>4. QED
  BY <1>1, <1>2, <1>3 DEF IsKnown

\* Sessions already served stay as they are, and the new one is the one written.
LEMMA ScanFileSessions ==
  ASSUME FileTypes, ScanInv, ScanFile
  PROVE  SessionsReload'
<1> DEFINE i      == source.next
           opened == source.opened
           date   == disk[i].date
           f      == disk[i]
           keep   == f.sound /\ date \notin DOMAIN opened
           back   == Opened(abroad, f)
           walk   == Walked(abroad, f.table)
<1>1. /\ i \in 1 .. Len(disk) /\ Len(disk) \in Nat /\ abroad' = back.registry
      /\ disk' = disk /\ written' = written /\ knew' = knew
  BY ScanFileStep
<1>2. Grows(abroad, abroad')
  <2>1. Grows(abroad, back.registry)
    BY <1>1, Scanned
  <2>2. QED
    BY <1>1, <2>1
<1>3. ASSUME NEW d \in DOMAIN opened, NEW kept, kept = opened[d]
      PROVE  Reloads(kept.session, kept.from)'
  <2>1. Reloads(kept.session, kept.from)
    BY <1>3 DEF ScanInv, SessionsReload
  <2>2. \A b, j : b = kept.session /\ j = kept.from => Reloads(b, j)'
    BY <1>1, <1>2, <2>1, ReloadsStill
  <2>3. QED
    BY <2>2
<1>4. CASE keep
  <2>1. /\ DOMAIN source'.opened = DOMAIN opened \cup {date}
        /\ source'.opened[date] = [from |-> i, session |-> back.session]
        /\ \A d \in DOMAIN opened : source'.opened[d] = opened[d]
    BY <1>4, ScanFileStep
  <2>2. /\ back.session = [date |-> written[i].day.date, instruments |-> walk.ids,
                           column |-> written[i].day.column, timeline |-> TimelineOf(written[i].day.column)]
        /\ back.registry = walk.registry /\ walk \in Walks /\ WalkedTo(walk, abroad, f.table, Len(f.table))
    BY <1>1, <1>4, Scanned
  <2>3. \A b, j : b = back.session /\ j = i => Reloads(b, j)'
    <3> SUFFICES ASSUME NEW b, NEW j, b = back.session, j = i PROVE Reloads(b, j)'
      OBVIOUS
    <3> HIDE DEF back, walk, i, f
    <3>1. b = [date |-> written[j].day.date, instruments |-> walk.ids,
               column |-> written[j].day.column, timeline |-> TimelineOf(written[j].day.column)]
      BY <2>2
    <3>2. /\ b.date = written[j].day.date /\ b.column = written[j].day.column
          /\ b.timeline = TimelineOf(written[j].day.column) /\ b.instruments = walk.ids
      BY <3>1
    <3>3. walk.ids \in Seq(Nat) /\ Len(walk.ids) = Len(f.table) /\ abroad' = walk.registry /\ f = disk[j]
      BY <1>1, <2>2 DEF Walks, WalkedTo, f
    <3>4. ASSUME NEW k \in 1 .. Len(disk[j].table), NEW spec, spec = disk[j].table[k],
                 NEW id, id = b.instruments[k]
          PROVE  Found(j, spec, id)'
      <4> DEFINE told == \E m \in 1 .. j - 1 : \E n \in DOMAIN disk[m].table :
                           KeyOf(disk[m].table[n]) = KeyOf(spec)
      <4>1. /\ IsKnown(walk.registry, f.table[k]) /\ walk.ids[k] = IdOf(walk.registry, f.table[k])
            /\ IsKnown(abroad, f.table[k]) \/ walk.registry[walk.ids[k]].lot = f.table[k].lot
        BY <2>2, <3>3 DEF WalkedTo
      <4>2. spec = f.table[k] /\ id = walk.ids[k]
        BY <3>2, <3>3, <3>4
      <4>3. IsKnown(abroad, spec) => IsKnown(knew, spec) \/ told
        BY KnownFrom DEF ScanInv, i
      <4>4. told' <=> told
        BY <1>1
      <4> HIDE DEF told
      <4>5. /\ IsKnown(abroad', spec) /\ id = IdOf(abroad', spec)
            /\ abroad'[id].lot = spec.lot \/ IsKnown(knew', spec) \/ told'
        BY <1>1, <3>3, <4>1, <4>2, <4>3, <4>4
      <4>6. QED
        BY <4>5 DEF Found, told
    <3>5. QED
      BY <1>1, <3>2, <3>3, <3>4 DEF Reloads
  <2>4. ASSUME NEW d \in DOMAIN source'.opened, NEW kept, kept = source'.opened[d]
        PROVE  Reloads(kept.session, kept.from)'
    <3>1. CASE d = date
      <4>1. kept = [from |-> i, session |-> back.session]
        BY <2>1, <2>4, <3>1
      <4> HIDE DEF i, back
      <4>2. kept.from = i /\ kept.session = back.session
        BY <4>1
      <4>3. QED
        BY <2>3, <4>2
    <3>2. CASE d \in DOMAIN opened
      BY <1>3, <2>1, <2>4, <3>2
    <3>3. QED
      BY <2>1, <3>1, <3>2
  <2>5. QED
    BY <2>4 DEF SessionsReload
<1>5. CASE ~keep
  <2>1. source'.opened = opened
    BY <1>5, ScanFileStep
  <2>2. QED
    BY <1>3, <2>1 DEF SessionsReload
<1>6. QED
  BY <1>4, <1>5

LEMMA FileStepKeeps ==
  ASSUME FileTypes, ScanInv, [FileNext]_fvars
  PROVE  FileTypes' /\ ScanInv'
<1>1. CASE StartDay \/ Printed
  BY <1>1, PutTogether
<1>2. CASE WriteDay
  BY <1>2, WriteDayKeeps
<1>3. CASE Spoil
  BY <1>3, SpoilKeeps
<1>4. CASE StartScan
  BY <1>4, StartScanKeeps
<1>5. CASE ScanFile
  BY <1>5, ScanFileTypes, ScanFileAccounted, ScanFileProvenance, ScanFileSessions DEF ScanInv
<1>6. CASE UNCHANGED fvars
  <2>1. /\ home' = home /\ day' = day /\ disk' = disk /\ abroad' = abroad /\ source' = source
        /\ written' = written /\ knew' = knew
    BY <1>6 DEF fvars
  <2>2. FileTypes'
    BY <2>1 DEF FileTypes
  <2>3. ScanInv'
    BY <2>1, Stands
  <2>4. QED
    BY <2>2, <2>3
<1>7. QED
  BY <1>1, <1>2, <1>3, <1>4, <1>5, <1>6 DEF FileNext

\* The inductive invariant.
LEMMA FilesSound == FileSpec => [](FileTypes /\ ScanInv)
<1>1. FileInit => FileTypes /\ ScanInv
  BY FileInitTypes
<1>2. FileTypes /\ ScanInv /\ [FileNext]_fvars => (FileTypes /\ ScanInv)'
  BY FileStepKeeps
<1>3. QED
  BY <1>1, <1>2, PTL DEF FileSpec

-----------------------------------------------------------------------------
(* What the properties ask.                                                  *)

LEMMA AccountedFor ==
  ASSUME FileTypes, ScanInv
  PROVE  EveryFileAccountedFor
<1> SUFFICES ASSUME source.next > Len(disk), NEW i \in DOMAIN disk
             PROVE  /\ Served(i) <=> disk[i].sound /\ {n \in 1 .. i - 1 : disk[n].sound /\ disk[n].date = disk[i].date} = {}
                    /\ i \in source.problems <=> ~Served(i)
  BY DEF EveryFileAccountedFor, Served
<1>1. Len(disk) \in Nat /\ i \in 1 .. Len(disk)
  BY DiskTyped
<1>2. source.next \in 1 .. Len(disk) + 1
  <2>1. source # NoScan
    BY <1>1 DEF NoScan
  <2>2. QED
    BY <2>1 DEF FileTypes
<1>3. 1 .. source.next - 1 = 1 .. Len(disk)
  <2>1. source.next = Len(disk) + 1
    BY <1>1, <1>2
  <2>2. QED
    BY <1>1, <2>1
<1>4. /\ DOMAIN source.opened = {disk[k].date : k \in {n \in 1 .. Len(disk) : disk[n].sound}}
      /\ \A d \in DOMAIN source.opened :
           LET from == source.opened[d].from
           IN  /\ from \in 1 .. Len(disk) /\ disk[from].sound /\ disk[from].date = d
               /\ \A n \in 1 .. from - 1 : ~(disk[n].sound /\ disk[n].date = d)
      /\ source.problems = {n \in 1 .. Len(disk) : ~Served(n)}
  BY <1>3 DEF ScanInv, Accounted
<1>5. i \in source.problems <=> ~Served(i)
  BY <1>1, <1>4
<1>6. Served(i) => disk[i].sound /\ \A n \in 1 .. i - 1 : ~(disk[n].sound /\ disk[n].date = disk[i].date)
  BY <1>4 DEF Served
<1>7. ASSUME disk[i].sound, \A n \in 1 .. i - 1 : ~(disk[n].sound /\ disk[n].date = disk[i].date)
      PROVE  Served(i)
  <2> DEFINE d == disk[i].date
             from == source.opened[d].from
  <2>1. d \in DOMAIN source.opened
    BY <1>1, <1>4, <1>7
  <2>2. /\ from \in 1 .. Len(disk) /\ disk[from].sound /\ disk[from].date = d
        /\ \A n \in 1 .. from - 1 : ~(disk[n].sound /\ disk[n].date = d)
    BY <1>4, <2>1
  <2> HIDE DEF from
  <2>3. ~(from < i) /\ ~(i < from)
    BY <1>1, <1>7, <2>2
  <2>4. from = i
    BY <1>1, <2>2, <2>3
  <2>5. QED
    BY <2>1, <2>4 DEF Served, from
<1>8. QED
  BY <1>5, <1>6, <1>7

\* What a session holds under an id that stands once in it.
LEMMA ColumnFound ==
  ASSUME NEW served, served.instruments \in Seq(Nat), NEW k \in 1 .. Len(served.instruments),
         \A j \in 1 .. Len(served.instruments) : served.instruments[j] = served.instruments[k] => j = k
  PROVE  ColumnIn(served, served.instruments[k]) = served.column[k]
<1> DEFINE at == {j \in DOMAIN served.instruments : served.instruments[j] = served.instruments[k]}
<1>1. at = {k}
  <2>1. DOMAIN served.instruments = 1 .. Len(served.instruments)
    OBVIOUS
  <2>2. QED
    BY <2>1
<1>2. ColumnIn(served, served.instruments[k]) = IF at = {} THEN <<>> ELSE served.column[CHOOSE j \in at : TRUE]
  BY DEF ColumnIn
<1> HIDE DEF at
<1>3. QED
  BY <1>1, <1>2

\* Contracts that differ are found under ids that differ.
LEMMA IdsDiffer ==
  ASSUME NEW reg, NEW table, AllDiffer(table), NEW j \in 1 .. Len(table), NEW k \in 1 .. Len(table),
         IsKnown(reg, table[j]), IsKnown(reg, table[k]), IdOf(reg, table[j]) = IdOf(reg, table[k])
  PROVE  j = k
<1>1. KeyOf(reg[IdOf(reg, table[j])]) = KeyOf(table[j]) /\ KeyOf(reg[IdOf(reg, table[k])]) = KeyOf(table[k])
  BY IdFound
<1>2. QED
  BY <1>1 DEF AllDiffer

\* A file opened by itself, into an empty registry, is the session it was made of.
LEMMA Verified ==
  ASSUME NEW w \in Written
  PROVE  Verifies(w.home, w.day, Made(w, TRUE))
<1> DEFINE f    == Made(w, TRUE)
           ids  == w.day.instruments
           walk == Walked(<<>>, f.table)
           back == Opened(<<>>, f)
           n    == Len(ids)
           Same(id, spec) == KeyOf(w.home[id]) = KeyOf(spec) /\ w.home[id].lot = spec.lot
<1>1. /\ f.table \in Seq(Specs) /\ Len(f.table) = n /\ AllDiffer(f.table)
      /\ \A k \in 1 .. Len(f.table) : f.table[k] = w.home[ids[k]]
  <2> DEFINE Table(table) ==
               /\ table \in Seq(Specs) /\ Len(table) = n /\ AllDiffer(table)
               /\ \A k \in 1 .. Len(table) : table[k] = w.home[ids[k]]
  <2>1. \A sound : Table(Made(w, sound).table)
    BY MadeFields
  <2>2. QED
    BY <2>1
<1>2. ids \in Seq(Nat) /\ n \in Nat /\ DOMAIN ids = 1 .. n
  BY DEF Written, Days
<1>3. <<>> \in Seq(Specs)
  OBVIOUS
<1>4. /\ back.ok /\ back.registry = walk.registry
      /\ back.session = [date |-> w.day.date, instruments |-> walk.ids, column |-> w.day.column,
                         timeline |-> TimelineOf(w.day.column)]
      /\ walk \in Walks /\ WalkedTo(walk, <<>>, f.table, Len(f.table))
  BY <1>3, SoundOpens
<1>5. \A spec : ~IsKnown(<<>>, spec)
  <2>1. DOMAIN <<>> = {}
    OBVIOUS
  <2>2. QED
    BY <2>1 DEF IsKnown, KnownAs
<1> HIDE DEF f, walk, back, n
<1>6. /\ walk.ids \in Seq(Nat) /\ Len(walk.ids) = n /\ DOMAIN walk.ids = 1 .. n
  <2>1. walk.ids \in Seq(Nat) /\ Len(walk.ids) = n
    BY <1>1, <1>4 DEF Walks, WalkedTo
  <2>2. QED
    BY <2>1
<1>7. \A k \in 1 .. n : /\ IsKnown(walk.registry, f.table[k]) /\ walk.ids[k] = IdOf(walk.registry, f.table[k])
                        /\ walk.registry[walk.ids[k]].lot = f.table[k].lot
                        /\ KeyOf(walk.registry[walk.ids[k]]) = KeyOf(f.table[k])
  <2> SUFFICES ASSUME NEW k \in 1 .. n
               PROVE  /\ IsKnown(walk.registry, f.table[k]) /\ walk.ids[k] = IdOf(walk.registry, f.table[k])
                      /\ walk.registry[walk.ids[k]].lot = f.table[k].lot
                      /\ KeyOf(walk.registry[walk.ids[k]]) = KeyOf(f.table[k])
    OBVIOUS
  <2>1. /\ IsKnown(walk.registry, f.table[k]) /\ walk.ids[k] = IdOf(walk.registry, f.table[k])
        /\ walk.registry[walk.ids[k]].lot = f.table[k].lot
    BY <1>1, <1>4, <1>5 DEF WalkedTo
  <2>2. KeyOf(walk.registry[IdOf(walk.registry, f.table[k])]) = KeyOf(f.table[k])
    BY <2>1, IdFound
  <2>3. QED
    BY <2>1, <2>2
<1>8. \A j, k \in 1 .. n : walk.ids[j] = walk.ids[k] => j = k
  <2> SUFFICES ASSUME NEW j \in 1 .. n, NEW k \in 1 .. n, walk.ids[j] = walk.ids[k] PROVE j = k
    OBVIOUS
  <2>1. /\ IsKnown(walk.registry, f.table[j]) /\ IsKnown(walk.registry, f.table[k])
        /\ IdOf(walk.registry, f.table[j]) = IdOf(walk.registry, f.table[k])
    BY <1>7
  <2>2. j \in 1 .. Len(f.table) /\ k \in 1 .. Len(f.table) /\ AllDiffer(f.table)
    BY <1>1
  <2>3. QED
    BY <2>1, <2>2, IdsDiffer
<1> DEFINE reread == back.session
<1>9. /\ reread.date = w.day.date /\ reread.instruments = walk.ids /\ reread.column = w.day.column
      /\ reread.timeline = TimelineOf(w.day.column)
  BY <1>4
<1> HIDE DEF reread
<1>10. \A k \in 1 .. n : ColumnIn(reread, walk.ids[k]) = w.day.column[k]
  <2> SUFFICES ASSUME NEW k \in 1 .. n PROVE ColumnIn(reread, walk.ids[k]) = w.day.column[k]
    OBVIOUS
  <2>1. reread.instruments \in Seq(Nat) /\ k \in 1 .. Len(reread.instruments)
    BY <1>6, <1>9
  <2>2. \A j \in 1 .. Len(reread.instruments) : reread.instruments[j] = reread.instruments[k] => j = k
    BY <1>6, <1>8, <1>9
  <2>3. ColumnIn(reread, reread.instruments[k]) = reread.column[k]
    BY <2>1, <2>2, ColumnFound
  <2>4. QED
    BY <1>9, <2>3
<1>11. \A k \in DOMAIN reread.instruments : \E m \in DOMAIN w.day.instruments :
         /\ Same(w.day.instruments[m], back.registry[reread.instruments[k]])
         /\ w.day.column[m] = ColumnIn(reread, reread.instruments[k])
  <2> SUFFICES ASSUME NEW k \in 1 .. n
               PROVE  \E m \in 1 .. n : /\ Same(ids[m], back.registry[reread.instruments[k]])
                                        /\ w.day.column[m] = ColumnIn(reread, reread.instruments[k])
    BY <1>2, <1>6, <1>9
  <2>1. f.table[k] = w.home[ids[k]]
    BY <1>1
  <2>2. Same(ids[k], back.registry[walk.ids[k]])
    BY <1>4, <1>7, <2>1
  <2>3. QED
    BY <1>9, <1>10, <2>2
<1>12. back.ok
  BY <1>4
<1>13. TotalOf(reread.column) = TotalOf(w.day.column) /\ Len(reread.instruments) = Len(f.table)
  BY <1>1, <1>6, <1>9
<1>14. QED
  <2> HIDE DEF ids
  <2>1. QED
    BY <1>9, <1>11, <1>12, <1>13 DEF Verifies, back, reread, f

LEMMA AllReloaded ==
  ASSUME FileTypes, ScanInv
  PROVE  ReloadedAsWritten
<1>1. ASSUME NEW i \in DOMAIN disk, disk[i].sound
      PROVE  Verifies(written[i].home, written[i].day, disk[i])
  <2>1. i \in 1 .. Len(disk)
    BY DiskTyped
  <2>2. written[i] \in Written /\ disk[i] = Made(written[i], disk[i].sound) /\ disk[i].sound \in BOOLEAN
    BY <2>1, OnDisk
  <2>3. disk[i] = Made(written[i], TRUE)
    BY <1>1, <2>2
  <2>4. QED
    BY <2>2, <2>3, Verified
<1>2. ASSUME NEW d \in DOMAIN source.opened
      PROVE  LET back == source.opened[d].session
                 from == written[source.opened[d].from]
             IN  /\ back.date = d /\ back.date = from.day.date
                 /\ back.timeline = TimelineOf(from.day.column)
                 /\ Len(back.instruments) = Len(from.day.instruments)
                 /\ \A k \in DOMAIN from.day.instruments :
                      LET spec == from.home[from.day.instruments[k]]
                      IN  /\ IsKnown(abroad, spec)
                          /\ ColumnIn(back, IdOf(abroad, spec)) = from.day.column[k]
                          /\ \/ abroad[IdOf(abroad, spec)].lot = spec.lot
                             \/ IsKnown(knew, spec)
                             \/ \E i \in 1 .. source.opened[d].from - 1 :
                                  \E n \in DOMAIN disk[i].table : KeyOf(disk[i].table[n]) = KeyOf(spec)
  <2> DEFINE back == source.opened[d].session
             i    == source.opened[d].from
             w    == written[i]
             f    == disk[i]
             ids  == w.day.instruments
             n    == Len(ids)
  <2>1. i \in 1 .. Len(disk) /\ f.date = d
    <3>1. i \in 1 .. source.next - 1 /\ f.date = d
      BY DEF ScanInv, Accounted
    <3>2. Len(disk) \in Nat
      BY DiskTyped
    <3>3. source.next \in 1 .. Len(disk) + 1
      <4>1. source # NoScan
        BY DEF NoScan
      <4>2. QED
        BY <4>1 DEF FileTypes
    <3> HIDE DEF i
    <3>4. QED
      BY <3>1, <3>2, <3>3
  <2>2. /\ w \in Written /\ f.date = w.day.date /\ AllDiffer(f.table) /\ Len(f.table) = n
        /\ \A k \in 1 .. Len(f.table) : f.table[k] = w.home[ids[k]]
    BY <2>1, OnDisk
  <2>3. ids \in Seq(Nat)
    BY <2>2 DEF Written, Days
  <2>4. Reloads(back, i)
    BY DEF ScanInv, SessionsReload
  <2> HIDE DEF back, i
  <2>5. /\ back.date = w.day.date /\ back.column = w.day.column /\ back.timeline = TimelineOf(w.day.column)
        /\ back.instruments \in Seq(Nat) /\ Len(back.instruments) = Len(f.table)
    BY <2>4 DEF Reloads
  <2>6. \A k \in 1 .. n : Found(i, f.table[k], back.instruments[k])
    BY <2>2, <2>4 DEF Reloads
  <2> HIDE DEF w, f, n
  <2>7. \A j, k \in 1 .. n : back.instruments[j] = back.instruments[k] => j = k
    <3> SUFFICES ASSUME NEW j \in 1 .. n, NEW k \in 1 .. n, back.instruments[j] = back.instruments[k] PROVE j = k
      OBVIOUS
    <3>1. /\ IsKnown(abroad, f.table[j]) /\ IsKnown(abroad, f.table[k])
          /\ IdOf(abroad, f.table[j]) = IdOf(abroad, f.table[k])
      BY <2>6 DEF Found
    <3>2. j \in 1 .. Len(f.table) /\ k \in 1 .. Len(f.table) /\ AllDiffer(f.table)
      BY <2>2
    <3>3. QED
      BY <3>1, <3>2, IdsDiffer
  <2>8. \A k \in 1 .. n : ColumnIn(back, back.instruments[k]) = w.day.column[k]
    <3> SUFFICES ASSUME NEW k \in 1 .. n PROVE ColumnIn(back, back.instruments[k]) = w.day.column[k]
      OBVIOUS
    <3>1. \A j \in 1 .. Len(back.instruments) : back.instruments[j] = back.instruments[k] => j = k
      BY <2>2, <2>5, <2>7
    <3>2. k \in 1 .. Len(back.instruments)
      BY <2>2, <2>5
    <3>3. QED
      BY <2>5, <3>1, <3>2, ColumnFound
  <2>9. DOMAIN ids = 1 .. n
    BY <2>3 DEF n
  <2>10. \A k \in DOMAIN ids :
           LET spec == w.home[ids[k]]
           IN  /\ IsKnown(abroad, spec)
               /\ ColumnIn(back, IdOf(abroad, spec)) = w.day.column[k]
               /\ \/ abroad[IdOf(abroad, spec)].lot = spec.lot
                  \/ IsKnown(knew, spec)
                  \/ \E j \in 1 .. i - 1 : \E m \in DOMAIN disk[j].table : KeyOf(disk[j].table[m]) = KeyOf(spec)
    <3> SUFFICES ASSUME NEW k \in 1 .. n
                 PROVE  LET spec == w.home[ids[k]]
                        IN  /\ IsKnown(abroad, spec)
                            /\ ColumnIn(back, IdOf(abroad, spec)) = w.day.column[k]
                            /\ \/ abroad[IdOf(abroad, spec)].lot = spec.lot
                               \/ IsKnown(knew, spec)
                               \/ \E j \in 1 .. i - 1 :
                                    \E m \in DOMAIN disk[j].table : KeyOf(disk[j].table[m]) = KeyOf(spec)
      BY <2>9
    <3>1. f.table[k] = w.home[ids[k]]
      BY <2>2
    <3>2. IdOf(abroad, f.table[k]) = back.instruments[k] /\ ColumnIn(back, back.instruments[k]) = w.day.column[k]
      BY <2>6, <2>8 DEF Found
    <3>3. QED
      BY <2>6, <3>1, <3>2 DEF Found
  <2>11. back.date = d /\ Len(back.instruments) = n
    BY <2>1, <2>2, <2>5
  <2>12. QED
    BY <2>5, <2>10, <2>11 DEF back, i, w, n
<1>3. QED
  BY <1>1, <1>2 DEF ReloadedAsWritten

\* EveryFileAccountedFor: once VfdaySource's scan is over, each file of the directory
\* is either served, being the first sound one of its date, or among the problems.
THEOREM FilesAccounted == FileSpec => []EveryFileAccountedFor
<1>1. FileTypes /\ ScanInv => EveryFileAccountedFor
  BY AccountedFor
<1>2. QED
  BY <1>1, FilesSound, PTL

\* ReloadedAsWritten: write_vfday's verification never fails on a file that is sound,
\* and VfdaySource serves from it the session that was written, whatever registry it
\* is opened into.
THEOREM SessionsReloaded == FileSpec => []ReloadedAsWritten
<1>1. FileTypes /\ ScanInv => ReloadedAsWritten
  BY AllReloaded
<1>2. QED
  BY <1>1, FilesSound, PTL

-----------------------------------------------------------------------------
(* The rows of a file: what the parser keeps, and what is in order.          *)

RowOf == [date : Dates, time : Times]

LEMMA LineTypes ==
  ASSUME NEW line \in Lines, line # Torn
  PROVE  /\ line \in RowOf /\ line.date \in Dates /\ line.date \in Nat /\ line.date # NoDate
         /\ line.time \in Nat
<1>1. line \in RowOf
  BY DEF Lines, RowOf
<1>2. line.date \in Dates /\ line.time \in Times
  BY <1>1 DEF RowOf
<1>3. QED
  BY <1>1, <1>2, IngestAssumption

\* The first row of a file.
LEMMA FirstRow ==
  ASSUME NEW lines \in Seq(Lines), NEW i \in DOMAIN lines, lines[i] # Torn
  PROVE  \E m \in RowsIn(lines) : /\ FirstDate(lines) = lines[m].date /\ lines[m] # Torn /\ m \in 1 .. Len(lines)
                                  /\ \A j \in RowsIn(lines) : m <= j
<1>1. RowsIn(lines) \subseteq Nat /\ i \in RowsIn(lines) /\ RowsIn(lines) \subseteq 1 .. Len(lines)
  BY DEF RowsIn
<1>2. PICK m \in RowsIn(lines) : \A k \in RowsIn(lines) : ~(k < m)
  BY <1>1, LeastNatural
<1>3. \A k \in RowsIn(lines) : m <= k
  BY <1>1, <1>2
<1>4. Min(RowsIn(lines)) \in RowsIn(lines) /\ \A k \in RowsIn(lines) : Min(RowsIn(lines)) <= k
  <2>1. \E x \in RowsIn(lines) : \A k \in RowsIn(lines) : x <= k
    BY <1>3
  <2>2. QED
    BY <2>1 DEF Min
<1>5. Min(RowsIn(lines)) = m
  BY <1>1, <1>2, <1>3, <1>4
<1>6. FirstDate(lines) = lines[m].date
  BY <1>1, <1>5 DEF FirstDate
<1>7. QED
  BY <1>1, <1>2, <1>3, <1>6 DEF RowsIn

LEMMA NoRow == ASSUME NEW lines, \A i \in DOMAIN lines : lines[i] = Torn PROVE FirstDate(lines) = NoDate
BY DEF FirstDate, RowsIn

States == [expected : Dates \cup {NoDate}, previous : Nat, kept : Seq(RowOf)]

LEMMA StateFields ==
  ASSUME NEW st \in States
  PROVE  st.expected \in Dates \cup {NoDate} /\ st.previous \in Nat /\ st.kept \in Seq(RowOf)
BY DEF States

\* One line.
LEMMA AcceptFields ==
  ASSUME NEW st \in States, NEW line \in Lines
  PROVE  LET new  == Accept(st, line)
             that == IF st.expected = NoDate THEN line.date ELSE st.expected
         IN  /\ new \in States
             /\ line = Torn => new = st
             /\ line # Torn =>
                  /\ new.expected = that
                  /\ IF line.date # that \/ line.time < st.previous
                     THEN new.previous = st.previous /\ new.kept = st.kept
                     ELSE new.previous = line.time /\ new.kept = Append(st.kept, line)
<1> DEFINE new  == Accept(st, line)
           that == IF st.expected = NoDate THEN line.date ELSE st.expected
           more == Append(st.kept, line)
<1>1. st.expected \in Dates \cup {NoDate} /\ st.previous \in Nat /\ st.kept \in Seq(RowOf)
  BY StateFields
<1>2. CASE line = Torn
  BY <1>2 DEF Accept
<1>3. CASE line # Torn
  <2>1. line \in RowOf /\ line.date \in Dates /\ line.time \in Nat
    BY <1>3, LineTypes
  <2>2. that \in Dates \cup {NoDate} /\ more \in Seq(RowOf)
    BY <1>1, <2>1
  <2>3. new = IF line.date # that \/ line.time < st.previous THEN [st EXCEPT !.expected = that]
              ELSE [expected |-> that, previous |-> line.time, kept |-> more]
    BY <1>3 DEF Accept
  <2>4. CASE line.date # that \/ line.time < st.previous
    <3>1. new = [st EXCEPT !.expected = that]
      BY <2>3, <2>4
    <3> HIDE DEF new, that
    <3>2. new \in States /\ new.expected = that /\ new.previous = st.previous /\ new.kept = st.kept
      BY <2>2, <3>1 DEF States
    <3>3. QED
      BY <1>3, <2>4, <3>2 DEF new, that
  <2>5. CASE ~(line.date # that \/ line.time < st.previous)
    <3>1. new = [expected |-> that, previous |-> line.time, kept |-> more]
      BY <2>3, <2>5
    <3> HIDE DEF new, that, more
    <3>2. new \in States /\ new.expected = that /\ new.previous = line.time /\ new.kept = more
      BY <2>1, <2>2, <3>1 DEF States
    <3>3. QED
      BY <1>3, <2>5, <3>2 DEF new, that, more
  <2>6. QED
    BY <2>4, <2>5
<1>4. QED
  BY <1>2, <1>3

\* The parser, line by line.
LEMMA ParsedRuns ==
  ASSUME NEW lines \in Seq(Lines), expected \in Dates \cup {NoDate}
  PROVE  \E after \in [0 .. Len(lines) -> States] :
           /\ after[0] = [expected |-> expected, previous |-> 0, kept |-> <<>>]
           /\ \A k \in 1 .. Len(lines) : after[k] = Accept(after[k - 1], lines[k])
           /\ Parsed(lines) = after[Len(lines)]
<1> DEFINE n     == Len(lines)
           start == [expected |-> expected, previous |-> 0, kept |-> <<>>]
           step  == [p \in States \X (1 .. n) |-> Accept(p[1], lines[p[2]])]
           Is(f) == f = [k \in 0 .. n |-> IF k = 0 THEN start ELSE Accept(f[k - 1], lines[k])]
           after == CHOOSE f : Is(f)
<1>1. n \in Nat /\ \A k \in 1 .. n : lines[k] \in Lines
  OBVIOUS
<1>2. start \in States
  BY DEF States
<1>3. step \in [States \X (1 .. n) -> States]
  BY <1>1, AcceptFields
<1>4. Parsed(lines) = after[n]
  BY DEF Parsed
<1> HIDE DEF n, start
<1>5. \E f : Recursion(f, n, States, start, step)
  <2> HIDE DEF step
  <2> QED
    BY <1>1, <1>2, <1>3, RecursionExists
<1>6. PICK f : Recursion(f, n, States, start, step)
  BY <1>5
<1>7. \A k \in 1 .. n : f[k] = Accept(f[k - 1], lines[k])
  <2> SUFFICES ASSUME NEW k \in 1 .. n PROVE f[k] = Accept(f[k - 1], lines[k])
    OBVIOUS
  <2>1. f \in [0 .. n -> States] /\ f[k] = step[<<f[k - 1], k>>]
    <3> HIDE DEF step
    <3> QED
      BY <1>6 DEF Recursion
  <2>2. k - 1 \in 0 .. n
    BY <1>1
  <2>3. f[k - 1] \in States
    BY <2>1, <2>2
  <2>4. step[<<f[k - 1], k>>] = Accept(f[k - 1], lines[k])
    BY <2>3
  <2>5. QED
    BY <2>1, <2>4
<1>8. Is(f)
  <2>1. DOMAIN f = 0 .. n /\ f[0] = start /\ f = [k \in DOMAIN f |-> f[k]]
    BY <1>6 DEF Recursion
  <2>2. \A k \in 0 .. n : f[k] = IF k = 0 THEN start ELSE Accept(f[k - 1], lines[k])
    BY <1>1, <1>7, <2>1
  <2>3. QED
    BY <2>1, <2>2
<1>9. Is(after)
  <2> HIDE DEF Is
  <2> QED
    BY <1>8
<1> HIDE DEF after
<1>10. after[0] = start /\ \A k \in 1 .. n : after[k] = Accept(after[k - 1], lines[k])
  <2>1. 0 \in 0 .. n /\ \A k \in 1 .. n : k \in 0 .. n /\ k # 0
    BY <1>1
  <2>2. QED
    BY <1>9, <2>1
<1>11. \A k \in 0 .. n : k \in {j \in 0 .. n : after[j] \in States}
  <2> DEFINE P == {j \in 0 .. n : after[j] \in States}
  <2>1. 0 \in P
    BY <1>1, <1>2, <1>10
  <2>2. ASSUME NEW k \in 1 .. n, k - 1 \in P PROVE k \in P
    <3>1. after[k - 1] \in States /\ lines[k] \in Lines /\ k \in 0 .. n
      BY <1>1, <2>2
    <3>2. after[k] \in States
      BY <1>10, <3>1, AcceptFields
    <3>3. QED
      BY <3>1, <3>2
  <2> HIDE DEF P
  <2>3. \A k \in 0 .. n : k \in P
    BY <1>1, <2>1, <2>2, NatUpTo
  <2>4. QED
    BY <2>3 DEF P
<1>12. after \in [0 .. n -> States]
  <2>1. \A k \in 0 .. n : after[k] \in States
    BY <1>11
  <2>2. DOMAIN after = 0 .. n /\ after = [k \in DOMAIN after |-> after[k]]
    BY <1>9
  <2>3. QED
    BY <2>1, <2>2
<1>13. QED
  BY <1>4, <1>10, <1>12 DEF n, start

\* The rows in order, line by line.
LEMMA InOrderRuns ==
  ASSUME NEW lines \in Seq(Lines), NEW date
  PROVE  \E upto \in [0 .. Len(lines) -> Seq(RowOf)] :
           /\ upto[0] = <<>>
           /\ \A k \in 1 .. Len(lines) :
                upto[k] = IF InOrder(lines, date, k) THEN Append(upto[k - 1], lines[k]) ELSE upto[k - 1]
           /\ RowsInOrder(lines, date) = upto[Len(lines)]
<1> DEFINE n     == Len(lines)
           S     == Seq(RowOf)
           start == <<>>
           Next(s, k) == IF InOrder(lines, date, k) THEN Append(s, lines[k]) ELSE s
           step  == [p \in S \X (1 .. n) |-> Next(p[1], p[2])]
           Is(f) == f = [k \in 0 .. n |-> IF k = 0 THEN start ELSE Next(f[k - 1], k)]
           upto  == CHOOSE f : Is(f)
<1>1. n \in Nat /\ \A k \in 1 .. n : lines[k] \in Lines
  OBVIOUS
<1>2. start \in S
  OBVIOUS
<1>3. \A s \in S, k \in 1 .. n : Next(s, k) \in S
  <2> SUFFICES ASSUME NEW s \in S, NEW k \in 1 .. n PROVE Next(s, k) \in S
    OBVIOUS
  <2>1. InOrder(lines, date, k) => lines[k] \in RowOf
    BY <1>1, LineTypes DEF InOrder, OfDay
  <2>2. QED
    BY <2>1
<1>4. RowsInOrder(lines, date) = upto[n]
  BY DEF RowsInOrder
<1> HIDE DEF n, start, S, Next
<1>5. step \in [S \X (1 .. n) -> S]
  BY <1>3
<1>6. \E f : Recursion(f, n, S, start, step)
  <2> HIDE DEF step
  <2> QED
    BY <1>1, <1>2, <1>5, RecursionExists
<1>7. PICK f : Recursion(f, n, S, start, step)
  BY <1>6
<1>8. \A k \in 1 .. n : f[k] = Next(f[k - 1], k)
  <2> SUFFICES ASSUME NEW k \in 1 .. n PROVE f[k] = Next(f[k - 1], k)
    OBVIOUS
  <2>1. f \in [0 .. n -> S] /\ f[k] = step[<<f[k - 1], k>>]
    <3> HIDE DEF step
    <3> QED
      BY <1>7 DEF Recursion
  <2>2. k - 1 \in 0 .. n
    BY <1>1
  <2>3. f[k - 1] \in S
    BY <2>1, <2>2
  <2>4. step[<<f[k - 1], k>>] = Next(f[k - 1], k)
    BY <2>3
  <2>5. QED
    BY <2>1, <2>4
<1>9. Is(f)
  <2>1. DOMAIN f = 0 .. n /\ f[0] = start /\ f = [k \in DOMAIN f |-> f[k]]
    BY <1>7 DEF Recursion
  <2>2. \A k \in 0 .. n : f[k] = IF k = 0 THEN start ELSE Next(f[k - 1], k)
    BY <1>1, <1>8, <2>1
  <2>3. QED
    BY <2>1, <2>2
<1>10. Is(upto)
  <2> HIDE DEF Is
  <2> QED
    BY <1>9
<1> HIDE DEF upto
<1>11. upto[0] = start /\ \A k \in 1 .. n : upto[k] = Next(upto[k - 1], k)
  <2>1. 0 \in 0 .. n /\ \A k \in 1 .. n : k \in 0 .. n /\ k # 0
    BY <1>1
  <2>2. QED
    BY <1>10, <2>1
<1>12. \A k \in 0 .. n : k \in {j \in 0 .. n : upto[j] \in S}
  <2> DEFINE P == {j \in 0 .. n : upto[j] \in S}
  <2>1. 0 \in P
    BY <1>1, <1>2, <1>11
  <2>2. ASSUME NEW k \in 1 .. n, k - 1 \in P PROVE k \in P
    <3>1. upto[k - 1] \in S /\ k \in 0 .. n
      BY <1>1, <2>2
    <3>2. upto[k] \in S
      BY <1>3, <1>11, <3>1
    <3>3. QED
      BY <3>1, <3>2
  <2> HIDE DEF P
  <2>3. \A k \in 0 .. n : k \in P
    BY <1>1, <2>1, <2>2, NatUpTo
  <2>4. QED
    BY <2>3 DEF P
<1>13. upto \in [0 .. n -> S]
  <2>1. \A k \in 0 .. n : upto[k] \in S
    BY <1>12
  <2>2. DOMAIN upto = 0 .. n /\ upto = [k \in DOMAIN upto |-> upto[k]]
    BY <1>10
  <2>3. QED
    BY <2>1, <2>2
<1>14. QED
  BY <1>4, <1>11, <1>13 DEF n, start, S, Next

\* Without a row of the day there is none in order.
LEMMA NoneInOrder ==
  ASSUME NEW lines \in Seq(Lines), NEW date, \A i \in 1 .. Len(lines) : ~OfDay(lines[i], date)
  PROVE  RowsInOrder(lines, date) = <<>>
<1> DEFINE n == Len(lines)
<1>1. PICK upto \in [0 .. n -> Seq(RowOf)] :
        /\ upto[0] = <<>>
        /\ \A k \in 1 .. n : upto[k] = IF InOrder(lines, date, k) THEN Append(upto[k - 1], lines[k]) ELSE upto[k - 1]
        /\ RowsInOrder(lines, date) = upto[n]
  BY InOrderRuns
<1> DEFINE P == {k \in 0 .. n : upto[k] = <<>>}
<1>2. n \in Nat
  OBVIOUS
<1>3. \A k \in 1 .. n : ~InOrder(lines, date, k)
  BY DEF InOrder
<1> HIDE DEF n
<1>4. 0 \in P
  BY <1>1, <1>2
<1>5. ASSUME NEW k \in 1 .. n, k - 1 \in P PROVE k \in P
  BY <1>1, <1>2, <1>3, <1>5
<1>6. n \in 0 .. n
  BY <1>2
<1> HIDE DEF P
<1>7. n \in P
  BY <1>2, <1>4, <1>5, <1>6, NatUpTo
<1>8. QED
  BY <1>1, <1>7 DEF P

LEMMA InOrderType ==
  ASSUME NEW lines \in Seq(Lines), NEW date
  PROVE  RowsInOrder(lines, date) \in Seq(RowOf)
<1>1. Len(lines) \in 0 .. Len(lines)
  OBVIOUS
<1>2. QED
  BY <1>1, InOrderRuns

\* The day as of some lines, and what the parser has kept of them, is what is in order.
Along(st, lines, first, date, upto, k) ==
  /\ st.expected = IF first # NoDate \/ \E i \in 1 .. k : lines[i] # Torn THEN date ELSE NoDate
  /\ st.kept = upto
  /\ \A i \in 1 .. k : OfDay(lines[i], date) => lines[i].time <= st.previous
  /\ st.previous = 0 \/ \E i \in 1 .. k : OfDay(lines[i], date) /\ lines[i].time = st.previous

LEMMA AlongNext ==
  ASSUME NEW lines \in Seq(Lines), NEW first \in Dates \cup {NoDate}, NEW date,
         date = (IF first # NoDate THEN first ELSE FirstDate(lines)),
         NEW k \in 1 .. Len(lines), NEW st \in States, NEW upto, Along(st, lines, first, date, upto, k - 1)
  PROVE  Along(Accept(st, lines[k]), lines, first, date,
               IF InOrder(lines, date, k) THEN Append(upto, lines[k]) ELSE upto, k)
<1> DEFINE line == lines[k]
           new  == Accept(st, line)
           that == IF st.expected = NoDate THEN line.date ELSE st.expected
           more == IF InOrder(lines, date, k) THEN Append(upto, line) ELSE upto
<1>1. /\ k \in Nat /\ line \in Lines /\ Len(lines) \in Nat /\ DOMAIN lines = 1 .. Len(lines)
      /\ \A i \in 1 .. k : i \in 1 .. k - 1 \/ i = k
      /\ \A i \in 1 .. k - 1 : i \in 1 .. k
      /\ \A i \in 1 .. k : i \in 1 .. Len(lines) /\ lines[i] \in Lines
      /\ k \in 1 .. k
  OBVIOUS
<1>2. /\ st.expected = IF first # NoDate \/ \E i \in 1 .. k - 1 : lines[i] # Torn THEN date ELSE NoDate
      /\ st.kept = upto
      /\ \A i \in 1 .. k - 1 : OfDay(lines[i], date) => lines[i].time <= st.previous
      /\ st.previous = 0 \/ \E i \in 1 .. k - 1 : OfDay(lines[i], date) /\ lines[i].time = st.previous
  BY DEF Along
<1>3. /\ line = Torn => new = st
      /\ line # Torn =>
           /\ new.expected = that
           /\ IF line.date # that \/ line.time < st.previous
              THEN new.previous = st.previous /\ new.kept = st.kept
              ELSE new.previous = line.time /\ new.kept = Append(st.kept, line)
  BY <1>1, AcceptFields
<1>4. st.previous \in Nat
  BY StateFields
<1> SUFFICES Along(new, lines, first, date, more, k)
  OBVIOUS
<1> HIDE DEF new
<1>5. CASE line = Torn
  <2>1. more = upto
    BY <1>5 DEF InOrder, OfDay
  <2>2. ~OfDay(line, date) /\ \A i \in 1 .. k : lines[i] # Torn => i \in 1 .. k - 1
    BY <1>1, <1>5 DEF OfDay
  <2>3. new = st
    BY <1>3, <1>5
  <2>4. (\E i \in 1 .. k : lines[i] # Torn) <=> (\E i \in 1 .. k - 1 : lines[i] # Torn)
    BY <1>1, <2>2
  <2>5. \A i \in 1 .. k : OfDay(lines[i], date) => i \in 1 .. k - 1
    BY <2>2 DEF OfDay
  <2> HIDE DEF line, more
  <2>6. new.expected = IF first # NoDate \/ \E i \in 1 .. k : lines[i] # Torn THEN date ELSE NoDate
    BY <1>2, <2>3, <2>4
  <2>7. \A i \in 1 .. k : OfDay(lines[i], date) => lines[i].time <= new.previous
    BY <1>2, <2>3, <2>5
  <2>8. new.previous = 0 \/ \E i \in 1 .. k : OfDay(lines[i], date) /\ lines[i].time = new.previous
    BY <1>1, <1>2, <2>3
  <2>9. QED
    BY <1>2, <2>1, <2>3, <2>6, <2>7, <2>8 DEF Along
<1>6. CASE line # Torn
  <2>1. line.date \in Nat /\ line.date # NoDate /\ line.time \in Nat
    BY <1>1, <1>6, LineTypes
  <2>2. that = date
    <3>1. CASE first # NoDate
      BY <1>2, <3>1
    <3>2. CASE first = NoDate
      <4>1. PICK m \in RowsIn(lines) : /\ date = lines[m].date /\ lines[m] # Torn /\ m \in 1 .. Len(lines)
                                       /\ \A j \in RowsIn(lines) : m <= j
        BY <1>1, <1>6, <3>2, FirstRow
      <4>2. date # NoDate
        BY <1>1, <4>1, LineTypes
      <4>3. CASE \E i \in 1 .. k - 1 : lines[i] # Torn
        BY <1>2, <4>2, <4>3
      <4>4. CASE ~(\E i \in 1 .. k - 1 : lines[i] # Torn)
        <5>1. m <= k
          BY <1>1, <1>6, <4>1 DEF RowsIn
        <5>2. m = k
          BY <1>1, <4>1, <4>4, <5>1
        <5>3. QED
          BY <1>2, <3>2, <4>1, <4>4, <5>2
      <4>5. QED
        BY <4>3, <4>4
    <3>3. QED
      BY <3>1, <3>2
  <2>3. new.expected = IF first # NoDate \/ \E i \in 1 .. k : lines[i] # Torn THEN date ELSE NoDate
    BY <1>1, <1>3, <1>6, <2>2
  <2>4. OfDay(line, date) <=> line.date = date
    BY <1>6 DEF OfDay
  <2>5. CASE line.date # date
    <3>1. more = upto /\ ~OfDay(lines[k], date)
      BY <2>4, <2>5 DEF InOrder
    <3>2. new.previous = st.previous /\ new.kept = st.kept
      BY <1>3, <1>6, <2>2, <2>5
    <3> HIDE DEF line, more, that
    <3>3. \A i \in 1 .. k : OfDay(lines[i], date) => lines[i].time <= new.previous
      BY <1>1, <1>2, <3>1, <3>2
    <3>4. new.previous = 0 \/ \E i \in 1 .. k : OfDay(lines[i], date) /\ lines[i].time = new.previous
      BY <1>1, <1>2, <3>2
    <3>5. QED
      BY <1>2, <2>3, <3>1, <3>2, <3>3, <3>4 DEF Along
  <2>6. CASE line.date = date /\ line.time < st.previous
    <3>1. PICK i \in 1 .. k - 1 : OfDay(lines[i], date) /\ lines[i].time = st.previous
      <4>1. st.previous # 0
        BY <1>4, <2>1, <2>6
      <4>2. QED
        BY <1>2, <4>1
    <3>2. ~InOrder(lines, date, k)
      BY <1>1, <1>4, <2>1, <2>6, <3>1 DEF InOrder
    <3>3. more = upto /\ new.previous = st.previous /\ new.kept = st.kept
      BY <1>3, <1>6, <2>2, <2>6, <3>2
    <3>4. lines[k].time <= st.previous
      BY <1>4, <2>1, <2>6
    <3> HIDE DEF line, more, that
    <3>5. \A j \in 1 .. k : OfDay(lines[j], date) => lines[j].time <= new.previous
      BY <1>1, <1>2, <3>3, <3>4
    <3>6. \E j \in 1 .. k : OfDay(lines[j], date) /\ lines[j].time = new.previous
      BY <1>1, <3>1, <3>3
    <3>7. QED
      BY <1>2, <2>3, <3>3, <3>5, <3>6 DEF Along
  <2>7. CASE line.date = date /\ ~(line.time < st.previous)
    <3>1. new.previous = lines[k].time /\ new.kept = Append(st.kept, line)
      BY <1>3, <1>6, <2>2, <2>7
    <3>2. \A i \in 1 .. k : OfDay(lines[i], date) => lines[i].time <= lines[k].time
      <4> SUFFICES ASSUME NEW i \in 1 .. k - 1, OfDay(lines[i], date) PROVE lines[i].time <= lines[k].time
        BY <1>1, <2>1
      <4>1. lines[i].time \in Nat
        BY <1>1, LineTypes DEF OfDay
      <4>2. lines[i].time <= st.previous
        BY <1>2
      <4>3. QED
        BY <1>4, <2>1, <2>7, <4>1, <4>2
    <3>3. InOrder(lines, date, k)
      BY <2>4, <2>7, <3>2 DEF InOrder
    <3>4. new.kept = more
      BY <1>2, <3>1, <3>3
    <3>5. OfDay(lines[k], date)
      BY <2>4, <2>7
    <3> HIDE DEF line, more, that
    <3>6. QED
      BY <1>1, <2>3, <3>1, <3>2, <3>4, <3>5 DEF Along
  <2>8. QED
    BY <2>5, <2>6, <2>7
<1>7. QED
  BY <1>5, <1>6

\* What the parser keeps of a file are its rows in order; the day is known after it if
\* it was before or the file has a row.
LEMMA ParsedIs ==
  ASSUME NEW lines \in Seq(Lines), expected \in Dates \cup {NoDate}
  PROVE  LET date == IF expected # NoDate THEN expected ELSE FirstDate(lines)
         IN  Parsed(lines).expected = date /\ Parsed(lines).kept = RowsInOrder(lines, date)
             /\ date \in Dates \cup {NoDate}
<1> DEFINE n     == Len(lines)
           date   == IF expected # NoDate THEN expected ELSE FirstDate(lines)
           start == [expected |-> expected, previous |-> 0, kept |-> <<>>]
<1>1. PICK after \in [0 .. n -> States] :
           /\ after[0] = start
           /\ \A k \in 1 .. n : after[k] = Accept(after[k - 1], lines[k])
           /\ Parsed(lines) = after[n]
  BY ParsedRuns
<1>2. PICK upto \in [0 .. n -> Seq(RowOf)] :
        /\ upto[0] = <<>>
        /\ \A k \in 1 .. n : upto[k] = IF InOrder(lines, date, k) THEN Append(upto[k - 1], lines[k]) ELSE upto[k - 1]
        /\ RowsInOrder(lines, date) = upto[n]
  <2> HIDE DEF date
  <2> QED
    BY InOrderRuns
<1> DEFINE P == {k \in 0 .. n : Along(after[k], lines, expected, date, upto[k], k)}
<1>3. n \in Nat /\ DOMAIN lines = 1 .. n /\ \A k \in 1 .. n : lines[k] \in Lines
  OBVIOUS
<1>4. Along(start, lines, expected, date, <<>>, 0)
  <2>1. start.expected = expected /\ start.previous = 0 /\ start.kept = <<>>
    OBVIOUS
  <2> HIDE DEF start
  <2>2. start.expected = IF expected # NoDate \/ \E i \in 1 .. 0 : lines[i] # Torn THEN date ELSE NoDate
    BY <2>1
  <2>3. QED
    BY <2>1, <2>2 DEF Along
<1>5. date = IF expected # NoDate THEN expected ELSE FirstDate(lines)
  OBVIOUS
<1> HIDE DEF n, date, start
<1>6. 0 \in P
  BY <1>1, <1>2, <1>3, <1>4
<1>7. ASSUME NEW k \in 1 .. n, k - 1 \in P PROVE k \in P
  <2>1. k - 1 \in 0 .. n /\ k \in 0 .. n /\ k \in 1 .. Len(lines)
    BY <1>3 DEF n
  <2>2. after[k - 1] \in States /\ Along(after[k - 1], lines, expected, date, upto[k - 1], k - 1)
    BY <1>7, <2>1
  <2>3. Along(Accept(after[k - 1], lines[k]), lines, expected, date,
              IF InOrder(lines, date, k) THEN Append(upto[k - 1], lines[k]) ELSE upto[k - 1], k)
    BY <1>5, <2>1, <2>2, AlongNext
  <2>4. Along(after[k], lines, expected, date, upto[k], k)
    BY <1>1, <1>2, <2>3
  <2>5. QED
    BY <2>1, <2>4
<1> HIDE DEF P
<1>8. n \in P
  <2>1. n \in 0 .. n
    BY <1>3
  <2>2. QED
    BY <1>3, <1>6, <1>7, <2>1, NatUpTo
<1>9. Along(Parsed(lines), lines, expected, date, RowsInOrder(lines, date), n)
  BY <1>1, <1>2, <1>8 DEF P
<1>10. date \in Dates \cup {NoDate}
  <2>1. CASE \E i \in 1 .. n : lines[i] # Torn
    <3>1. PICK m \in RowsIn(lines) : FirstDate(lines) = lines[m].date /\ lines[m] # Torn /\ m \in 1 .. Len(lines)
      BY <1>3, <2>1, FirstRow
    <3>2. FirstDate(lines) \in Dates
      BY <3>1, LineTypes
    <3>3. QED
      BY <1>5, <3>2
  <2>2. CASE \A i \in 1 .. n : lines[i] = Torn
    BY <1>3, <1>5, <2>2, NoRow
  <2>3. QED
    BY <2>1, <2>2
<1>11. Parsed(lines).expected = date
  <2>1. CASE \A i \in 1 .. n : lines[i] = Torn
    <3>1. FirstDate(lines) = NoDate
      BY <1>3, <2>1, NoRow
    <3>2. QED
      BY <1>5, <1>9, <2>1, <3>1 DEF Along
  <2>2. CASE \E i \in 1 .. n : lines[i] # Torn
    BY <1>9, <2>2 DEF Along
  <2>3. QED
    BY <2>1, <2>2
<1>12. QED
  BY <1>9, <1>10, <1>11 DEF Along, date

-----------------------------------------------------------------------------
(* The files taken so far.                                                   *)

Handed == [contract : Contracts \cup {Unparsable}, bytes : {"lost", "none", "some"}, lines : Seq(Lines)]

Totals == [column : [Contracts -> Seq(RowOf)], kept : Nat, lines : Nat]

Zero == [column |-> [c \in Contracts |-> <<>>], kept |-> 0, lines |-> 0]

\* With the rows of one more file.
WithRows(total, f, own) ==
  [column |-> [total.column EXCEPT ![f.contract] = @ \o own],
   kept |-> total.kept + Len(own), lines |-> total.lines + Len(f.lines)]

LEMMA ZeroType == Zero \in Totals
<1>1. <<>> \in Seq(RowOf)
  OBVIOUS
<1>2. [c \in Contracts |-> <<>>] \in [Contracts -> Seq(RowOf)]
  BY <1>1
<1>3. QED
  BY <1>2 DEF Zero, Totals

LEMMA WithRowsType ==
  ASSUME NEW total \in Totals, NEW f \in Handed, NEW own \in Seq(RowOf), f.contract \in Contracts
  PROVE  /\ WithRows(total, f, own) \in Totals
         /\ WithRows(total, f, own).kept = total.kept + Len(own)
         /\ WithRows(total, f, own).lines = total.lines + Len(f.lines)
         /\ \A c \in Contracts : WithRows(total, f, own).column[c] =
              IF c = f.contract THEN total.column[c] \o own ELSE total.column[c]
<1> DEFINE column == [total.column EXCEPT ![f.contract] = @ \o own]
<1>1. total.column \in [Contracts -> Seq(RowOf)] /\ total.kept \in Nat /\ total.lines \in Nat
  BY DEF Totals
<1>2. f.lines \in Seq(Lines)
  BY DEF Handed
<1>3. total.column[f.contract] \o own \in Seq(RowOf)
  BY <1>1
<1>4. column \in [Contracts -> Seq(RowOf)]
  BY <1>1, <1>3
<1>5. \A c \in Contracts : column[c] = IF c = f.contract THEN total.column[c] \o own ELSE total.column[c]
  BY <1>1
<1>6. Len(own) \in Nat /\ Len(f.lines) \in Nat
  BY <1>2
<1>7. WithRows(total, f, own) = [column |-> column, kept |-> total.kept + Len(own), lines |-> total.lines + Len(f.lines)]
  BY DEF WithRows
<1> HIDE DEF column
<1>8. WithRows(total, f, own) \in Totals /\ WithRows(total, f, own).column = column
  BY <1>1, <1>4, <1>6, <1>7 DEF Totals
<1>9. QED
  BY <1>5, <1>7, <1>8

\* rowsOf gives rows of some of the files, all contracts'.
RowsGiven(all, rowsOf) ==
  \A n \in 1 .. Len(all) : n \in DOMAIN rowsOf => rowsOf[n] \in Seq(RowOf) /\ all[n].contract \in Contracts

\* upto[n] is what the first n files come to.
Runs(upto, all, rowsOf) ==
  /\ upto \in [0 .. Len(all) -> Totals] /\ upto[0] = Zero
  /\ \A n \in 1 .. Len(all) :
       upto[n] = IF n \notin DOMAIN rowsOf THEN upto[n - 1] ELSE WithRows(upto[n - 1], all[n], rowsOf[n])

LEMMA TogetherRuns ==
  ASSUME NEW all \in Seq(Handed), NEW rowsOf, RowsGiven(all, rowsOf)
  PROVE  \E upto : Runs(upto, all, rowsOf) /\ Together(all, rowsOf) = upto[Len(all)]
<1> DEFINE n     == Len(all)
           Next(t, k) == IF k \notin DOMAIN rowsOf THEN t ELSE WithRows(t, all[k], rowsOf[k])
           step  == [p \in Totals \X (1 .. n) |-> Next(p[1], p[2])]
           Is(f) == f = [k \in 0 .. n |-> IF k = 0 THEN Zero ELSE Next(f[k - 1], k)]
           upto  == CHOOSE f : Is(f)
<1>1. n \in Nat /\ \A k \in 1 .. n : all[k] \in Handed
  OBVIOUS
<1>2. Zero \in Totals
  BY ZeroType
<1>3. \A t \in Totals, k \in 1 .. n : Next(t, k) \in Totals
  BY <1>1, WithRowsType DEF RowsGiven
<1>4. Together(all, rowsOf) = upto[n]
  BY DEF Together, Zero, WithRows
<1>5. \A t, k : Next(t, k) = IF k \notin DOMAIN rowsOf THEN t ELSE WithRows(t, all[k], rowsOf[k])
  OBVIOUS
<1> HIDE DEF n, Next
<1>6. step \in [Totals \X (1 .. n) -> Totals]
  BY <1>3
<1>7. \E f : Recursion(f, n, Totals, Zero, step)
  <2> HIDE DEF step
  <2> QED
    BY <1>1, <1>2, <1>6, RecursionExists
<1>8. PICK f : Recursion(f, n, Totals, Zero, step)
  BY <1>7
<1>9. \A k \in 1 .. n : f[k] = Next(f[k - 1], k)
  <2> SUFFICES ASSUME NEW k \in 1 .. n PROVE f[k] = Next(f[k - 1], k)
    OBVIOUS
  <2>1. f \in [0 .. n -> Totals] /\ f[k] = step[<<f[k - 1], k>>]
    <3> HIDE DEF step
    <3> QED
      BY <1>8 DEF Recursion
  <2>2. k - 1 \in 0 .. n
    BY <1>1
  <2>3. f[k - 1] \in Totals
    BY <2>1, <2>2
  <2>4. step[<<f[k - 1], k>>] = Next(f[k - 1], k)
    BY <2>3
  <2>5. QED
    BY <2>1, <2>4
<1>10. Is(f)
  <2>1. DOMAIN f = 0 .. n /\ f[0] = Zero /\ f = [k \in DOMAIN f |-> f[k]]
    BY <1>8 DEF Recursion
  <2>2. \A k \in 0 .. n : f[k] = IF k = 0 THEN Zero ELSE Next(f[k - 1], k)
    BY <1>1, <1>9, <2>1
  <2>3. QED
    BY <2>1, <2>2
<1>11. Is(upto)
  <2> HIDE DEF Is
  <2> QED
    BY <1>10
<1> HIDE DEF upto
<1>12. upto[0] = Zero /\ \A k \in 1 .. n : upto[k] = Next(upto[k - 1], k)
  <2>1. 0 \in 0 .. n /\ \A k \in 1 .. n : k \in 0 .. n /\ k # 0
    BY <1>1
  <2>2. QED
    BY <1>11, <2>1
<1>13. \A k \in 0 .. n : k \in {j \in 0 .. n : upto[j] \in Totals}
  <2> DEFINE P == {j \in 0 .. n : upto[j] \in Totals}
  <2>1. 0 \in P
    BY <1>1, <1>2, <1>12
  <2>2. ASSUME NEW k \in 1 .. n, k - 1 \in P PROVE k \in P
    <3>1. upto[k - 1] \in Totals /\ k \in 0 .. n
      BY <1>1, <2>2
    <3>2. upto[k] \in Totals
      BY <1>3, <1>12, <3>1
    <3>3. QED
      BY <3>1, <3>2
  <2> HIDE DEF P
  <2>3. \A k \in 0 .. n : k \in P
    BY <1>1, <2>1, <2>2, NatUpTo
  <2>4. QED
    BY <2>3 DEF P
<1>14. upto \in [0 .. n -> Totals]
  <2>1. \A k \in 0 .. n : upto[k] \in Totals
    BY <1>13
  <2>2. DOMAIN upto = 0 .. n /\ upto = [k \in DOMAIN upto |-> upto[k]]
    BY <1>11
  <2>3. QED
    BY <2>1, <2>2
<1>15. Runs(upto, all, rowsOf)
  BY <1>12, <1>14, <1>5 DEF Runs, n
<1>16. QED
  BY <1>4, <1>15 DEF n

\* One file more: it counts if it has rows given.
LEMMA TogetherNext ==
  ASSUME NEW all \in Seq(Handed), NEW f \in Handed, NEW rowsOf, NEW more,
         RowsGiven(Append(all, f), more), DOMAIN rowsOf \subseteq 1 .. Len(all),
         \A n \in 1 .. Len(all) : n \in DOMAIN more <=> n \in DOMAIN rowsOf,
         \A n \in DOMAIN rowsOf : more[n] = rowsOf[n]
  PROVE  Together(Append(all, f), more) =
           IF Len(all) + 1 \in DOMAIN more
           THEN WithRows(Together(all, rowsOf), f, more[Len(all) + 1]) ELSE Together(all, rowsOf)
<1> DEFINE n   == Len(all)
           new == Append(all, f)
<1>1. /\ n \in Nat /\ new \in Seq(Handed) /\ Len(new) = n + 1 /\ new[n + 1] = f
      /\ \A k \in 1 .. n : new[k] = all[k] /\ k \in 1 .. n + 1
      /\ n + 1 \in 1 .. n + 1
  OBVIOUS
<1>2. RowsGiven(all, rowsOf)
  BY <1>1 DEF RowsGiven
<1> HIDE DEF n, new
<1>3. PICK u : Runs(u, all, rowsOf) /\ Together(all, rowsOf) = u[n]
  BY <1>2, TogetherRuns DEF n
<1>4. PICK v : Runs(v, new, more) /\ Together(new, more) = v[n + 1]
  BY <1>1, TogetherRuns DEF new
<1> DEFINE P == {k \in 0 .. n : v[k] = u[k]}
<1>5. 0 \in P
  BY <1>1, <1>3, <1>4 DEF Runs
<1>6. ASSUME NEW k \in 1 .. n, k - 1 \in P PROVE k \in P
  <2>1. v[k - 1] = u[k - 1] /\ k \in 0 .. n
    BY <1>1, <1>6
  <2>2. u[k] = IF k \notin DOMAIN rowsOf THEN u[k - 1] ELSE WithRows(u[k - 1], all[k], rowsOf[k])
    BY <1>3 DEF Runs, n
  <2>3. v[k] = IF k \notin DOMAIN more THEN v[k - 1] ELSE WithRows(v[k - 1], new[k], more[k])
    BY <1>1, <1>4 DEF Runs
  <2>4. new[k] = all[k] /\ (k \in DOMAIN more <=> k \in DOMAIN rowsOf)
    BY <1>1 DEF n
  <2>5. QED
    BY <2>1, <2>2, <2>3, <2>4
<1> HIDE DEF P
<1>7. n \in P
  <2>1. n \in 0 .. n
    BY <1>1
  <2>2. QED
    BY <1>1, <1>5, <1>6, <2>1, NatUpTo
<1>8. v[n] = u[n]
  BY <1>7 DEF P
<1>9. v[n + 1] = IF n + 1 \notin DOMAIN more THEN v[(n + 1) - 1] ELSE WithRows(v[(n + 1) - 1], new[n + 1], more[n + 1])
  BY <1>1, <1>4 DEF Runs
<1>10. (n + 1) - 1 = n
  BY <1>1
<1>11. QED
  BY <1>1, <1>3, <1>4, <1>8, <1>9, <1>10 DEF n, new

LEMMA TogetherType ==
  ASSUME NEW all \in Seq(Handed), NEW rowsOf, RowsGiven(all, rowsOf)
  PROVE  Together(all, rowsOf) \in Totals
<1>1. Len(all) \in 0 .. Len(all)
  OBVIOUS
<1>2. QED
  BY <1>1, TogetherRuns DEF Runs

\* A contract with rows has a file they are from.
LEMMA RowsHaveFile ==
  ASSUME NEW all \in Seq(Handed), NEW rowsOf, RowsGiven(all, rowsOf),
         NEW c \in Contracts, Together(all, rowsOf).column[c] # <<>>
  PROVE  \E n \in 1 .. Len(all) : n \in DOMAIN rowsOf /\ all[n].contract = c
<1> DEFINE n == Len(all)
<1> SUFFICES ASSUME \A k \in 1 .. n : k \in DOMAIN rowsOf => all[k].contract # c PROVE FALSE
  OBVIOUS
<1>1. n \in Nat /\ \A k \in 1 .. n : all[k] \in Handed
  OBVIOUS
<1> HIDE DEF n
<1>2. PICK u : Runs(u, all, rowsOf) /\ Together(all, rowsOf) = u[n]
  BY TogetherRuns DEF n
<1> DEFINE P == {k \in 0 .. n : u[k].column[c] = <<>>}
<1>3. 0 \in P
  <2>1. Zero.column[c] = <<>>
    BY DEF Zero
  <2>2. QED
    BY <1>1, <1>2, <2>1 DEF Runs
<1>4. ASSUME NEW k \in 1 .. n, k - 1 \in P PROVE k \in P
  <2>1. u[k - 1].column[c] = <<>> /\ k - 1 \in 0 .. n /\ k \in 0 .. n
    BY <1>1, <1>4
  <2>2. u[k - 1] \in Totals /\ u[k] = IF k \notin DOMAIN rowsOf THEN u[k - 1] ELSE WithRows(u[k - 1], all[k], rowsOf[k])
    BY <1>2, <2>1 DEF Runs, n
  <2>3. k \in DOMAIN rowsOf => rowsOf[k] \in Seq(RowOf) /\ all[k].contract \in Contracts /\ all[k].contract # c
    BY DEF RowsGiven, n
  <2>4. u[k].column[c] = <<>>
    BY <1>1, <2>1, <2>2, <2>3, WithRowsType
  <2>5. QED
    BY <2>1, <2>4
<1> HIDE DEF P
<1>5. n \in P
  <2>1. n \in 0 .. n
    BY <1>1
  <2>2. QED
    BY <1>1, <1>3, <1>4, <2>1, NatUpTo
<1>6. QED
  BY <1>2, <1>5 DEF P

-----------------------------------------------------------------------------
(* The day, and the rows of it, as of some files.                            *)

LEMMA LeastOf ==
  ASSUME NEW S, S \subseteq Nat, S # {}
  PROVE  Min(S) \in S /\ \A k \in S : Min(S) <= k
<1>1. PICK m \in S : \A k \in S : ~(k < m)
  BY LeastNatural
<1>2. \A k \in S : m <= k
  BY <1>1
<1>3. QED
  BY <1>2 DEF Min

\* DayOf, of any files of which some were read.
DateOf(known, all, read) ==
  LET withRows == {n \in read : RowsIn(all[n].lines) # {}}
  IN  IF known # NoDate THEN known
      ELSE IF withRows = {} THEN NoDate ELSE FirstDate(all[Min(withRows)].lines)

RowsOf(all, read, date) == [n \in read |-> RowsInOrder(all[n].lines, date)]

LEMMA RowsOfGiven ==
  ASSUME NEW all \in Seq(Handed), NEW read \in SUBSET (1 .. Len(all)), NEW date,
         \A n \in read : all[n].contract \in Contracts
  PROVE  RowsGiven(all, RowsOf(all, read, date))
<1>1. ASSUME NEW n \in read PROVE RowsInOrder(all[n].lines, date) \in Seq(RowOf)
  <2>1. all[n] \in Handed
    OBVIOUS
  <2>2. all[n].lines \in Seq(Lines)
    BY <2>1 DEF Handed
  <2>3. QED
    BY <2>2, InOrderType
<1>2. QED
  BY <1>1 DEF RowsGiven, RowsOf

LEMMA HasDate ==
  ASSUME NEW lines \in Seq(Lines), RowsIn(lines) # {}
  PROVE  FirstDate(lines) \in Dates /\ FirstDate(lines) # NoDate
<1>1. PICK i \in DOMAIN lines : lines[i] # Torn
  BY DEF RowsIn
<1>2. PICK m \in RowsIn(lines) : FirstDate(lines) = lines[m].date /\ lines[m] # Torn /\ m \in 1 .. Len(lines)
  BY <1>1, FirstRow
<1>3. lines[m] \in Lines
  BY <1>2
<1>4. QED
  BY <1>2, <1>3, LineTypes

\* A file that is read may be the first with a row.
LEMMA DateKept ==
  ASSUME NEW all \in Seq(Handed), NEW read \in SUBSET (1 .. Len(all)), NEW f \in Handed, NEW known
  PROVE  DateOf(known, Append(all, f), read) = DateOf(known, all, read)
<1> DEFINE new == Append(all, f)
           W   == {k \in read : RowsIn(all[k].lines) # {}}
           V   == {k \in read : RowsIn(new[k].lines) # {}}
<1>1. \A k \in read : new[k] = all[k] /\ k \in Nat
  OBVIOUS
<1> HIDE DEF new
<1>2. V = W /\ W \subseteq Nat /\ W \subseteq read
  BY <1>1
<1>3. /\ DateOf(known, all, read) = IF known # NoDate THEN known ELSE IF W = {} THEN NoDate ELSE FirstDate(all[Min(W)].lines)
      /\ DateOf(known, new, read) = IF known # NoDate THEN known ELSE IF V = {} THEN NoDate ELSE FirstDate(new[Min(V)].lines)
  BY DEF DateOf
<1> HIDE DEF V, W
<1>4. W # {} => new[Min(W)] = all[Min(W)]
  BY <1>1, <1>2, LeastOf
<1>5. DateOf(known, new, read) = DateOf(known, all, read)
  BY <1>2, <1>3, <1>4
<1>6. QED
  BY <1>5 DEF new

\* As long as there is no date, no row has been read.
LEMMA NoRowYet ==
  ASSUME NEW all \in Seq(Handed), NEW read \in SUBSET (1 .. Len(all)), NEW known, DateOf(known, all, read) = NoDate
  PROVE  known = NoDate /\ \A k \in read : RowsIn(all[k].lines) = {}
<1> DEFINE W == {k \in read : RowsIn(all[k].lines) # {}}
<1>1. DateOf(known, all, read) = IF known # NoDate THEN known ELSE IF W = {} THEN NoDate ELSE FirstDate(all[Min(W)].lines)
  BY DEF DateOf
<1>2. W \subseteq Nat /\ \A k \in W : all[k] \in Handed /\ RowsIn(all[k].lines) # {}
  <2>1. \A k \in read : k \in Nat /\ all[k] \in Handed
    OBVIOUS
  <2>2. QED
    BY <2>1
<1>3. (\A k \in read : RowsIn(all[k].lines) = {}) \/ W # {}
  OBVIOUS
<1> HIDE DEF W
<1>4. CASE W = {}
  BY <1>1, <1>3, <1>4
<1>5. CASE W # {} /\ known = NoDate
  <2>1. Min(W) \in W
    BY <1>2, <1>5, LeastOf
  <2>2. RowsIn(all[Min(W)].lines) # {} /\ all[Min(W)].lines \in Seq(Lines)
    BY <1>2, <2>1 DEF Handed
  <2>3. FirstDate(all[Min(W)].lines) # NoDate
    BY <2>2, HasDate
  <2>4. QED
    BY <1>1, <1>5, <2>3
<1>6. QED
  BY <1>1, <1>4, <1>5

\* One more file gives the date if there was none.
LEMMA DateNext ==
  ASSUME NEW all \in Seq(Handed), NEW read \in SUBSET (1 .. Len(all)), NEW f \in Handed, NEW known
  PROVE  DateOf(known, Append(all, f), read \cup {Len(all) + 1})
           = IF DateOf(known, all, read) # NoDate THEN DateOf(known, all, read) ELSE FirstDate(f.lines)
<1> DEFINE new == Append(all, f)
           n   == Len(all)
           W   == {k \in read : RowsIn(all[k].lines) # {}}
           U   == {k \in read \cup {n + 1} : RowsIn(new[k].lines) # {}}
<1>1. n \in Nat /\ new[n + 1] = f /\ \A k \in read : new[k] = all[k] /\ k \in 1 .. n
  OBVIOUS
<1>2. /\ DateOf(known, all, read) = IF known # NoDate THEN known ELSE IF W = {} THEN NoDate ELSE FirstDate(all[Min(W)].lines)
      /\ DateOf(known, new, read \cup {n + 1}) = IF known # NoDate THEN known ELSE IF U = {} THEN NoDate ELSE FirstDate(new[Min(U)].lines)
  BY DEF DateOf
<1> HIDE DEF new, n
<1>3. /\ W \subseteq read /\ W \subseteq Nat /\ U \subseteq Nat /\ \A k \in W : k <= n /\ new[k] = all[k]
      /\ U = IF RowsIn(f.lines) # {} THEN W \cup {n + 1} ELSE W
  <2>1. W \subseteq read /\ W \subseteq Nat /\ U \subseteq Nat /\ \A k \in W : k <= n /\ new[k] = all[k]
    <3>1. \A k \in read : k \in Nat /\ k <= n /\ new[k] = all[k]
      BY <1>1
    <3>2. n + 1 \in Nat
      BY <1>1
    <3>3. QED
      BY <3>1, <3>2
  <2>2. U = IF RowsIn(f.lines) # {} THEN W \cup {n + 1} ELSE W
    <3>1. n + 1 \notin read
      BY <1>1
    <3>2. QED
      BY <1>1, <3>1
  <2>3. QED
    BY <2>1, <2>2
<1>4. W = {} => \A k \in read : RowsIn(all[k].lines) = {}
  OBVIOUS
<1> HIDE DEF W, U
<1>5. CASE known # NoDate
  BY <1>2, <1>5 DEF new, n
<1>6. CASE known = NoDate /\ W # {}
  <2>1. Min(W) \in W /\ \A k \in W : Min(W) <= k
    BY <1>3, <1>6, LeastOf
  <2>2. U # {} /\ Min(W) \in U /\ Min(W) \in Nat /\ Min(W) <= n
    BY <1>3, <2>1
  <2>3. Min(U) \in U /\ Min(U) \in Nat /\ \A k \in U : Min(U) <= k
    BY <1>3, <2>2, LeastOf
  <2>4. \A k \in U : Min(W) <= k
    BY <1>1, <1>3, <2>1, <2>2
  <2>5. Min(U) = Min(W)
    BY <2>2, <2>3, <2>4
  <2>6. DateOf(known, new, read \cup {n + 1}) = DateOf(known, all, read)
    BY <1>2, <1>3, <1>6, <2>1, <2>2, <2>5
  <2>7. DateOf(known, all, read) # NoDate
    <3> SUFFICES ASSUME DateOf(known, all, read) = NoDate PROVE FALSE
      OBVIOUS
    <3>1. \A k \in read : RowsIn(all[k].lines) = {}
      BY NoRowYet
    <3>2. QED
      BY <1>3, <1>6, <3>1 DEF W
  <2>8. QED
    BY <2>6, <2>7 DEF new, n
<1>7. CASE known = NoDate /\ W = {} /\ RowsIn(f.lines) # {}
  <2>1. U = {n + 1} /\ U # {}
    BY <1>3, <1>7
  <2>2. Min(U) = n + 1
    BY <1>3, <2>1, LeastOf
  <2>3. DateOf(known, all, read) = NoDate /\ DateOf(known, new, read \cup {n + 1}) = FirstDate(f.lines)
    BY <1>1, <1>2, <1>7, <2>1, <2>2
  <2>4. QED
    BY <2>3 DEF new, n
<1>8. CASE known = NoDate /\ W = {} /\ RowsIn(f.lines) = {}
  <2>1. FirstDate(f.lines) = NoDate
    BY <1>8 DEF FirstDate
  <2>2. DateOf(known, all, read) = NoDate /\ DateOf(known, new, read \cup {n + 1}) = NoDate
    BY <1>2, <1>3, <1>8
  <2>3. QED
    BY <2>1, <2>2 DEF new, n
<1>9. QED
  BY <1>5, <1>6, <1>7, <1>8

Summed(known, all, read) == Together(all, RowsOf(all, read, DateOf(known, all, read)))

\* What one more file adds to the rows.  Files before the day was known have none of it.
LEMMA SummedNext ==
  ASSUME NEW all \in Seq(Handed), NEW read \in SUBSET (1 .. Len(all)), NEW f \in Handed, NEW known,
         \A n \in read : all[n].contract \in Contracts
  PROVE  LET new == Append(all, f)
             date == DateOf(known, new, read \cup {Len(all) + 1})
         IN  /\ Summed(known, new, read) = Summed(known, all, read)
             /\ f.contract \in Contracts =>
                  Summed(known, new, read \cup {Len(all) + 1})
                    = WithRows(Summed(known, all, read), f, RowsInOrder(f.lines, date))
<1> DEFINE new   == Append(all, f)
           n     == Len(all)
           old   == DateOf(known, all, read)
           more  == read \cup {n + 1}
           date   == DateOf(known, new, more)
           given0 == RowsOf(all, read, old)
<1>1. /\ n \in Nat /\ new[n + 1] = f /\ new \in Seq(Handed) /\ Len(new) = n + 1
      /\ \A k \in read : new[k] = all[k] /\ all[k] \in Handed /\ k \in 1 .. n
      /\ more \subseteq 1 .. n + 1 /\ read \subseteq 1 .. n + 1 /\ n + 1 \notin read
      /\ \A k \in 1 .. n : k \in more <=> k \in read
  <2>1. n \in Nat /\ new[n + 1] = f /\ \A k \in 1 .. n : new[k] = all[k] /\ all[k] \in Handed
    OBVIOUS
  <2>2. new \in Seq(Handed) /\ Len(new) = n + 1
    OBVIOUS
  <2>3. read \subseteq 1 .. n
    OBVIOUS
  <2> HIDE DEF n, new
  <2>4. QED
    BY <2>1, <2>2, <2>3
<1>2. /\ DateOf(known, new, read) = old
      /\ date = IF old # NoDate THEN old ELSE FirstDate(f.lines)
      /\ old = NoDate => \A k \in read : RowsIn(all[k].lines) = {}
  <2>1. DateOf(known, new, read) = old
    BY DateKept
  <2>2. date = IF old # NoDate THEN old ELSE FirstDate(f.lines)
    BY DateNext
  <2>3. old = NoDate => \A k \in read : RowsIn(all[k].lines) = {}
    BY NoRowYet
  <2>4. QED
    BY <2>1, <2>2, <2>3
<1> HIDE DEF new, n, old, date, more
<1>3. \A k \in read : RowsInOrder(new[k].lines, date) = RowsInOrder(all[k].lines, old)
  <2> SUFFICES ASSUME NEW k \in read, old = NoDate
               PROVE  RowsInOrder(all[k].lines, date) = RowsInOrder(all[k].lines, old)
    BY <1>1, <1>2
  <2>1. all[k].lines \in Seq(Lines) /\ RowsIn(all[k].lines) = {}
    BY <1>1, <1>2 DEF Handed
  <2>2. \A i \in 1 .. Len(all[k].lines) : all[k].lines[i] = Torn
    BY <2>1 DEF RowsIn
  <2>3. \A d : RowsInOrder(all[k].lines, d) = <<>>
    BY <2>1, <2>2, NoneInOrder DEF OfDay
  <2>4. QED
    BY <2>3
<1>4. /\ DOMAIN given0 = read /\ \A k \in read : given0[k] = RowsInOrder(all[k].lines, old)
  BY DEF RowsOf
<1>5. Summed(known, all, read) = Together(all, given0)
  BY DEF Summed, old
<1> HIDE DEF given0
<1>6. Summed(known, new, read) = Summed(known, all, read)
  <2> DEFINE then == RowsOf(new, read, old)
  <2>1. Summed(known, new, read) = Together(new, then)
    BY <1>2 DEF Summed
  <2>2. RowsGiven(new, then)
    <3>1. \A k \in read : new[k].contract \in Contracts
      BY <1>1
    <3>2. read \in SUBSET (1 .. Len(new))
      BY <1>1
    <3>3. QED
      BY <1>1, <3>1, <3>2, RowsOfGiven
  <2>3. DOMAIN then = read /\ \A k \in read : then[k] = given0[k]
    BY <1>1, <1>4 DEF RowsOf
  <2> HIDE DEF then
  <2>4. Together(Append(all, f), then) =
          IF Len(all) + 1 \in DOMAIN then
          THEN WithRows(Together(all, given0), f, then[Len(all) + 1]) ELSE Together(all, given0)
    <3>1. RowsGiven(Append(all, f), then)
      BY <2>2 DEF new
    <3>2. DOMAIN given0 \subseteq 1 .. Len(all)
      BY <1>4
    <3>3. \A k \in 1 .. Len(all) : k \in DOMAIN then <=> k \in DOMAIN given0
      BY <1>4, <2>3
    <3>4. \A k \in DOMAIN given0 : then[k] = given0[k]
      BY <1>4, <2>3
    <3>5. QED
      BY <3>1, <3>2, <3>3, <3>4, TogetherNext
  <2>5. QED
    BY <1>1, <1>5, <2>1, <2>3, <2>4 DEF n, new
<1>7. ASSUME f.contract \in Contracts
      PROVE  Summed(known, new, more) = WithRows(Summed(known, all, read), f, RowsInOrder(f.lines, date))
  <2> DEFINE then == RowsOf(new, more, date)
  <2>1. Summed(known, new, more) = Together(new, then)
    BY DEF Summed, date
  <2>2. RowsGiven(new, then)
    <3>1. \A k \in more : new[k].contract \in Contracts
      BY <1>1, <1>7 DEF more
    <3>2. more \in SUBSET (1 .. Len(new))
      BY <1>1
    <3>3. QED
      BY <1>1, <3>1, <3>2, RowsOfGiven
  <2>3. DOMAIN then = more /\ then[n + 1] = RowsInOrder(f.lines, date) /\ \A k \in read : then[k] = given0[k]
    <3>1. n + 1 \in more /\ read \subseteq more
      BY DEF more
    <3>2. QED
      BY <1>1, <1>3, <1>4, <3>1 DEF RowsOf
  <2> HIDE DEF then
  <2>4. Together(Append(all, f), then) =
          IF Len(all) + 1 \in DOMAIN then
          THEN WithRows(Together(all, given0), f, then[Len(all) + 1]) ELSE Together(all, given0)
    <3>1. RowsGiven(Append(all, f), then)
      BY <2>2 DEF new
    <3>2. DOMAIN given0 \subseteq 1 .. Len(all)
      BY <1>4
    <3>3. \A k \in 1 .. Len(all) : k \in DOMAIN then <=> k \in DOMAIN given0
      BY <1>1, <1>4, <2>3 DEF n
    <3>4. \A k \in DOMAIN given0 : then[k] = given0[k]
      BY <1>4, <2>3
    <3>5. QED
      BY <3>1, <3>2, <3>3, <3>4, TogetherNext
  <2>5. n + 1 \in DOMAIN then
    BY <2>3 DEF more
  <2>6. QED
    BY <1>5, <2>1, <2>3, <2>4, <2>5 DEF n, new
<1>8. QED
  BY <1>6, <1>7 DEF n, new, more, date

-----------------------------------------------------------------------------
(* A load.                                                                   *)

\* What the caller's registry may hold.
Entries == (UNION {Range(known) : known \in Registries}) \cup {SpecOf(c) : c \in Contracts}

LoadTypes ==
  /\ registry \in Seq(Entries) /\ kind \in {"directory", "zip"}
  /\ expected \in Dates \cup {NoDate} /\ taken \in Seq(Handed)
  /\ stage \in {"closed", "open", "loaded", "thrown"}
  /\ DOMAIN session.column \subseteq DOMAIN registry
  /\ stage = "closed" =>
       /\ taken = <<>> /\ given = NoDate /\ expected = NoDate /\ session = NullSession
       /\ rows = [read |-> 0, skipped |-> 0]

\* What a column has of a contract.
HeldIn(column, id) == IF id \in DOMAIN column THEN column[id] ELSE <<>>

\* What the rows of the files read so far come to.
SoFarRead == Summed(given, taken, FilesRead)

Loaded ==
  /\ \A c \in Contracts :
       SoFarRead.column[c] = IF IsKnown(registry, c) THEN ColumnOf(IdOf(registry, c)) ELSE <<>>
  /\ rows = [read |-> SoFarRead.kept, skipped |-> SoFarRead.lines - SoFarRead.kept]
  /\ kind = "directory" \/ stage = "loaded" =>
       {registry[id].expiry : id \in DOMAIN session.column} \ {NoDate} \subseteq expiries

LoadInv ==
  /\ expected = DayOf
  /\ session # NullSession => expected # NoDate /\ session.date = expected
  /\ stage # "thrown" => Loaded
  /\ stage = "thrown" => \E m, n \in FilesRead : m # n /\ taken[m].contract = taken[n].contract

\* A contract's entry is the contract, but for its lot.
LEMMA SpecKey ==
  ASSUME NEW c \in Contracts
  PROVE  KeyOf(SpecOf(c)) = KeyOf(c) /\ SpecOf(c) \in Entries
<1>1. c \in [underlying : STRING, kind : {"Option"}, expiry : Nat, strike : Nat, right : {"Call", "Put"}, lot : Nat]
  BY IngestAssumption
<1>2. /\ SpecOf(c).underlying = c.underlying /\ SpecOf(c).kind = c.kind /\ SpecOf(c).expiry = c.expiry
      /\ SpecOf(c).strike = c.strike /\ SpecOf(c).right = c.right
  BY <1>1 DEF SpecOf
<1>3. KeyOf(SpecOf(c)) = KeyOf(c)
  BY <1>2 DEF KeyOf
<1>4. SpecOf(c) \in Entries
  BY DEF Entries
<1>5. QED
  BY <1>3, <1>4

LEMMA FilesReadAre ==
  ASSUME LoadTypes
  PROVE  /\ FilesRead \in SUBSET (1 .. Len(taken)) /\ Len(taken) \in Nat
         /\ \A n \in FilesRead : taken[n].contract \in Contracts
<1>1. DOMAIN taken = 1 .. Len(taken) /\ Len(taken) \in Nat /\ \A n \in 1 .. Len(taken) : taken[n] \in Handed
  BY DEF LoadTypes
<1>2. \A n \in FilesRead : n \in 1 .. Len(taken) /\ taken[n].contract # Unparsable
  BY <1>1 DEF FilesRead, PassesOver
<1>3. \A n \in FilesRead : taken[n].contract \in Contracts
  BY <1>1, <1>2 DEF Handed
<1>4. QED
  BY <1>1, <1>2, <1>3

LEMMA SummedType ==
  ASSUME LoadTypes
  PROVE  SoFarRead \in Totals
<1>1. RowsGiven(taken, RowsOf(taken, FilesRead, DateOf(given, taken, FilesRead)))
  BY FilesReadAre, RowsOfGiven DEF LoadTypes
<1>2. taken \in Seq(Handed)
  BY DEF LoadTypes
<1>3. QED
  BY <1>1, <1>2, TogetherType DEF SoFarRead, Summed

LEMMA DayIs == DayOf = DateOf(given, taken, FilesRead)
BY DEF DayOf, DateOf

\* Nothing is read of no files.
LEMMA NothingTaken ==
  ASSUME NEW known
  PROVE  DateOf(known, <<>>, {}) = known /\ Summed(known, <<>>, {}) = Zero
<1>1. DateOf(known, <<>>, {}) = known
  BY DEF DateOf
<1>2. <<>> \in Seq(Handed) /\ Len(<<>>) = 0
  OBVIOUS
<1>3. RowsGiven(<<>>, RowsOf(<<>>, {}, known))
  BY <1>2 DEF RowsGiven
<1>4. PICK upto : Runs(upto, <<>>, RowsOf(<<>>, {}, known)) /\ Together(<<>>, RowsOf(<<>>, {}, known)) = upto[Len(<<>>)]
  BY <1>2, <1>3, TogetherRuns
<1>5. QED
  BY <1>1, <1>2, <1>4 DEF Runs, Summed

LEMMA LoadInitTypes == LoadInit => LoadTypes /\ LoadInv
<1> SUFFICES ASSUME LoadInit PROVE LoadTypes /\ LoadInv
  OBVIOUS
<1>1. /\ registry \in Registries /\ kind \in {"directory", "zip"} /\ expected = NoDate /\ session = NullSession
      /\ rows = [read |-> 0, skipped |-> 0] /\ expiries = {} /\ stage = "closed" /\ given = NoDate /\ taken = <<>>
  BY DEF LoadInit
<1>2. registry \in Seq(Entries)
  <2>1. registry \in Seq(Range(registry))
    BY <1>1, IngestAssumption
  <2>2. Range(registry) \subseteq Entries
    BY <1>1 DEF Entries
  <2>3. QED
    BY <2>1, <2>2
<1>3. <<>> \in Seq(Handed) /\ DOMAIN NullSession.column = {}
  BY DEF NullSession
<1>4. LoadTypes
  BY <1>1, <1>2, <1>3 DEF LoadTypes
<1>5. FilesRead = {}
  BY <1>1 DEF FilesRead
<1>6. DayOf = NoDate /\ SoFarRead = Zero
  BY <1>1, <1>5, NothingTaken, DayIs DEF SoFarRead
<1>7. Loaded
  <2>1. \A id : ColumnOf(id) = <<>>
    BY <1>1, <1>3 DEF ColumnOf
  <2>2. Zero.kept = 0 /\ Zero.lines = 0 /\ \A c \in Contracts : Zero.column[c] = <<>>
    BY DEF Zero
  <2>3. QED
    BY <1>1, <1>3, <1>6, <2>1, <2>2 DEF Loaded
<1>8. QED
  BY <1>1, <1>4, <1>6, <1>7 DEF LoadInv

LEMMA OpenKeeps ==
  ASSUME LoadTypes, LoadInv, OpenArchive
  PROVE  LoadTypes' /\ LoadInv'
<1>1. /\ stage = "closed" /\ expected' \in Dates \cup {NoDate} /\ given' = expected' /\ stage' = "open"
      /\ UNCHANGED <<registry, kind, only, session, rows, tally, expiries, taken>>
  BY DEF OpenArchive
<1>2. taken = <<>> /\ given = NoDate /\ session = NullSession
  BY <1>1 DEF LoadTypes
<1>3. LoadTypes'
  BY <1>1 DEF LoadTypes
<1>4. FilesRead = {} /\ FilesRead' = {}
  BY <1>1, <1>2 DEF FilesRead
<1>5. DayOf' = given' /\ SoFarRead' = Zero /\ SoFarRead = Zero
  <2>1. DayOf' = DateOf(given', taken', FilesRead')
    BY DEF DayOf, DateOf
  <2>2. SoFarRead' = Summed(given', taken', FilesRead')
    BY DEF SoFarRead
  <2>3. QED
    BY <1>1, <1>2, <1>4, <2>1, <2>2, NothingTaken DEF SoFarRead
<1>6. Loaded
  BY <1>1 DEF LoadInv
<1>7. Loaded'
  BY <1>1, <1>5, <1>6 DEF Loaded, ColumnOf
<1>8. QED
  BY <1>1, <1>2, <1>3, <1>5, <1>7 DEF LoadInv

LEMMA CannotOpenKeeps ==
  ASSUME LoadTypes, LoadInv, CannotOpenArchive
  PROVE  LoadTypes' /\ LoadInv'
<1>1. /\ stage = "closed" /\ stage' = "loaded"
      /\ UNCHANGED <<registry, kind, only, expected, session, rows, tally, expiries, given, taken>>
  BY DEF CannotOpenArchive
<1>2. session = NullSession /\ DOMAIN session.column = {}
  BY <1>1 DEF LoadTypes, NullSession
<1>3. LoadTypes'
  BY <1>1 DEF LoadTypes
<1>4. FilesRead' = FilesRead
  BY <1>1 DEF FilesRead, PassesOver
<1>5. DayOf' = DayOf /\ SoFarRead' = SoFarRead
  BY <1>1, <1>4 DEF DayOf, SoFarRead
<1>6. Loaded
  BY <1>1 DEF LoadInv
<1>7. Loaded'
  BY <1>1, <1>2, <1>5, <1>6 DEF Loaded, ColumnOf
<1>8. QED
  BY <1>1, <1>2, <1>3, <1>5, <1>7 DEF LoadInv

LEMMA FinishKeeps ==
  ASSUME LoadTypes, LoadInv, FinishDay
  PROVE  LoadTypes' /\ LoadInv'
<1>1. /\ stage = "open" /\ stage' = "loaded"
      /\ expiries' = IF kind = "zip" THEN {registry[id].expiry : id \in DOMAIN session.column} \ {NoDate} ELSE expiries
      /\ UNCHANGED <<registry, kind, only, expected, session, rows, tally, given, taken>>
  BY DEF FinishDay
<1>2. kind \in {"directory", "zip"}
  BY DEF LoadTypes
<1>3. LoadTypes'
  BY <1>1 DEF LoadTypes
<1>4. FilesRead' = FilesRead
  BY <1>1 DEF FilesRead, PassesOver
<1>5. DayOf' = DayOf /\ SoFarRead' = SoFarRead
  BY <1>1, <1>4 DEF DayOf, SoFarRead
<1>6. Loaded
  BY <1>1 DEF LoadInv
<1>7. Loaded'
  BY <1>1, <1>2, <1>5, <1>6 DEF Loaded, ColumnOf
<1>8. QED
  BY <1>1, <1>3, <1>5, <1>7 DEF LoadInv

\* A file is handed over.
LEMMA HandedOver ==
  ASSUME LoadTypes, NEW f \in Handed, taken' = Append(taken, f), UNCHANGED <<kind, only, given>>
  PROVE  /\ PassesOver(f) => FilesRead' = FilesRead /\ DayOf' = DayOf /\ SoFarRead' = SoFarRead
         /\ ~PassesOver(f) =>
              /\ FilesRead' = FilesRead \cup {Len(taken) + 1} /\ f.contract \in Contracts
              /\ DayOf' = IF DayOf # NoDate THEN DayOf ELSE FirstDate(f.lines)
              /\ SoFarRead' = WithRows(SoFarRead, f, RowsInOrder(f.lines, DayOf'))
<1> DEFINE n == Len(taken)
<1>1. /\ taken \in Seq(Handed) /\ n \in Nat /\ FilesRead \in SUBSET (1 .. n)
      /\ \A k \in FilesRead : taken[k].contract \in Contracts
  BY FilesReadAre DEF LoadTypes
<1>2. \A g : PassesOver(g)' <=> PassesOver(g)
  BY DEF PassesOver
<1>3. /\ DOMAIN taken = 1 .. n /\ DOMAIN taken' = 1 .. n + 1 /\ taken'[n + 1] = f
      /\ \A k \in 1 .. n : taken'[k] = taken[k] /\ k # n + 1
      /\ \A k : k \in 1 .. n + 1 <=> k \in 1 .. n \/ k = n + 1
  <2> HIDE DEF LoadTypes
  <2> QED
    BY <1>1
<1>4. DateOf(given, Append(taken, f), FilesRead) = DateOf(given, taken, FilesRead)
  BY <1>1, DateKept DEF n
<1>5. DateOf(given, Append(taken, f), FilesRead \cup {n + 1})
         = IF DateOf(given, taken, FilesRead) # NoDate THEN DateOf(given, taken, FilesRead) ELSE FirstDate(f.lines)
  BY <1>1, DateNext DEF n
<1> HIDE DEF n
<1>6. FilesRead' = {k \in DOMAIN taken' : ~PassesOver(taken'[k])}
  BY <1>2 DEF FilesRead
<1>7. FilesRead' = IF PassesOver(f) THEN FilesRead ELSE FilesRead \cup {n + 1}
  BY <1>3, <1>6 DEF FilesRead
<1>8. DayOf' = DateOf(given', taken', FilesRead')
  BY DEF DayOf, DateOf
<1>9. SoFarRead' = Summed(given', taken', FilesRead')
  BY DEF SoFarRead
<1>10. CASE PassesOver(f)
  <2>1. DateOf(given, Append(taken, f), FilesRead) = DateOf(given, taken, FilesRead)
    BY <1>4
  <2>2. Summed(given, Append(taken, f), FilesRead) = Summed(given, taken, FilesRead)
    BY <1>1, SummedNext DEF n
  <2>3. QED
    BY <1>7, <1>8, <1>9, <1>10, <2>1, <2>2, DayIs DEF SoFarRead
<1>11. CASE ~PassesOver(f)
  <2>1. f.contract \in Contracts
    BY <1>11 DEF PassesOver, Handed
  <2>2. DateOf(given, Append(taken, f), FilesRead \cup {n + 1})
          = IF DayOf # NoDate THEN DayOf ELSE FirstDate(f.lines)
    BY <1>5, DayIs
  <2>3. Summed(given, Append(taken, f), FilesRead \cup {n + 1})
          = WithRows(SoFarRead, f, RowsInOrder(f.lines, DateOf(given, Append(taken, f), FilesRead \cup {n + 1})))
    BY <1>1, <2>1, SummedNext DEF n, SoFarRead
  <2>4. DayOf' = DateOf(given, Append(taken, f), FilesRead \cup {n + 1})
    BY <1>7, <1>8, <1>11
  <2>5. SoFarRead' = Summed(given, Append(taken, f), FilesRead \cup {n + 1})
    BY <1>7, <1>9, <1>11
  <2>6. QED
    BY <1>7, <1>11, <2>1, <2>2, <2>3, <2>4, <2>5 DEF n
<1>12. QED
  BY <1>10, <1>11

LEMMA PassOverKeeps ==
  ASSUME LoadTypes, LoadInv, stage = "open", NEW f \in Handed, taken' = Append(taken, f),
         UNCHANGED <<kind, only, given>>, PassOver(f)
  PROVE  LoadTypes' /\ LoadInv'
<1>1. PassesOver(f) /\ UNCHANGED <<registry, expected, session, rows, expiries, stage>>
  BY DEF PassOver
<1>2. FilesRead' = FilesRead /\ DayOf' = DayOf /\ SoFarRead' = SoFarRead
  BY <1>1, HandedOver
<1>3. LoadTypes'
  <2>1. taken' \in Seq(Handed)
    BY DEF LoadTypes
  <2>2. QED
    BY <1>1, <2>1 DEF LoadTypes
<1>4. Loaded
  BY DEF LoadInv
<1>5. Loaded'
  BY <1>1, <1>2, <1>4 DEF Loaded, ColumnOf
<1>6. QED
  BY <1>1, <1>2, <1>3, <1>5 DEF LoadInv

-----------------------------------------------------------------------------
(* A file is read.                                                           *)

\* The column the file's rows go to is the contract's, and no other contract's.
LEMMA IdGiven ==
  ASSUME LoadTypes, Loaded, NEW c \in Contracts, registry' = Added(registry, SpecOf(c))
  PROVE  LET id == IdOf(registry', SpecOf(c))
         IN  /\ registry' \in Seq(Entries) /\ Grows(registry, registry')
             /\ IsKnown(registry', c) /\ id = IdOf(registry', c)
             /\ id \in DOMAIN registry' /\ registry'[id].expiry = c.expiry
             /\ ColumnOf(id) = SoFarRead.column[c]
             /\ \A other \in Contracts : other # c =>
                  /\ IsKnown(registry', other) <=> IsKnown(registry, other)
                  /\ IsKnown(registry, other) =>
                       IdOf(registry', other) = IdOf(registry, other) /\ IdOf(registry', other) # id
<1> DEFINE spec == SpecOf(c)
           new  == Added(registry, spec)
           id   == IdOf(new, spec)
<1>1. KeyOf(spec) = KeyOf(c) /\ spec \in Entries /\ registry \in Seq(Entries)
  BY SpecKey DEF LoadTypes
<1>2. /\ new \in Seq(Entries) /\ Grows(registry, new) /\ IsKnown(new, spec)
      /\ \A other : KeyOf(other) # KeyOf(spec) => KnownAs(new, other) = KnownAs(registry, other)
  BY <1>1, AddedTo
<1>3. registry' = new
  OBVIOUS
<1> HIDE DEF spec, new
<1>4. IsKnown(new, c) /\ id = IdOf(new, c) /\ (IsKnown(registry, c) <=> IsKnown(registry, spec))
  BY <1>1, <1>2, SameKey DEF IsKnown
<1>5. id \in DOMAIN new /\ KeyOf(new[id]) = KeyOf(c)
  BY <1>1, <1>2, IdFound
<1> HIDE DEF id
<1>6. new[id].expiry = c.expiry
  BY <1>5 DEF KeyOf
<1>7. ColumnOf(id) = SoFarRead.column[c]
  <2>1. CASE IsKnown(registry, c)
    <3>1. IdOf(new, c) = IdOf(registry, c)
      BY <1>2, <2>1, IdKept
    <3>2. QED
      BY <1>4, <2>1, <3>1 DEF Loaded
  <2>2. CASE ~IsKnown(registry, c)
    <3>1. SoFarRead.column[c] = <<>>
      BY <2>2 DEF Loaded
    <3>2. id \notin DOMAIN registry
      <4> SUFFICES ASSUME id \in DOMAIN registry PROVE FALSE
        OBVIOUS
      <4>1. registry[id] = new[id]
        BY <1>2 DEF Grows
      <4>2. id \in KnownAs(registry, c)
        BY <1>5, <4>1 DEF KnownAs
      <4>3. QED
        BY <2>2, <4>2 DEF IsKnown
    <3>3. ColumnOf(id) = <<>>
      BY <3>2 DEF ColumnOf, LoadTypes
    <3>4. QED
      BY <3>1, <3>3
  <2>3. QED
    BY <2>1, <2>2
<1>8. ASSUME NEW other \in Contracts, other # c
      PROVE  /\ IsKnown(new, other) <=> IsKnown(registry, other)
             /\ IsKnown(registry, other) => IdOf(new, other) = IdOf(registry, other) /\ IdOf(new, other) # id
  <2>1. KeyOf(other) # KeyOf(c)
    BY <1>8, IngestAssumption
  <2>2. KnownAs(new, other) = KnownAs(registry, other)
    BY <1>1, <1>2, <2>1
  <2>3. IsKnown(new, other) <=> IsKnown(registry, other)
    BY <2>2 DEF IsKnown
  <2>4. IdOf(new, other) = IdOf(registry, other)
    BY <2>2 DEF IdOf
  <2>5. IsKnown(new, other) => KeyOf(new[IdOf(new, other)]) = KeyOf(other)
    BY IdFound
  <2>6. QED
    BY <1>5, <2>1, <2>3, <2>4, <2>5
<1>9. QED
  BY <1>2, <1>3, <1>4, <1>5, <1>6, <1>7, <1>8 DEF id, spec

LEMMA ReadFileKeeps ==
  ASSUME LoadTypes, LoadInv, stage = "open", NEW f \in Handed, taken' = Append(taken, f),
         UNCHANGED <<kind, only, given>>, ReadFile(f)
  PROVE  LoadTypes' /\ LoadInv'
<1> DEFINE id     == IdOf(registry', SpecOf(f.contract))
           parsed == Parsed(f.lines)
           kept   == parsed.kept
           column == [i \in DOMAIN session.column \cup {id} |->
                        IF i = id THEN ColumnOf(id) \o kept ELSE session.column[i]]
           c      == f.contract
           total  == SoFarRead
<1>1. /\ ~PassesOver(f) /\ registry' = Added(registry, SpecOf(c)) /\ expected' = parsed.expected
      /\ IF Throws(id, kept) THEN stage' = "thrown" /\ UNCHANGED <<session, rows, tally, expiries>>
         ELSE /\ session' = IF kept = <<>> THEN session ELSE [date |-> parsed.expected, column |-> column]
              /\ rows' = [read |-> rows.read + Len(kept), skipped |-> rows.skipped + Len(f.lines) - Len(kept)]
              /\ expiries' = IF kind = "directory" THEN expiries \cup {c.expiry} ELSE expiries
              /\ stage' = stage
  BY DEF ReadFile
<1>2. /\ FilesRead' = FilesRead \cup {Len(taken) + 1} /\ c \in Contracts
      /\ DayOf' = IF DayOf # NoDate THEN DayOf ELSE FirstDate(f.lines)
      /\ SoFarRead' = WithRows(total, f, RowsInOrder(f.lines, DayOf'))
  BY <1>1, HandedOver
<1>3. expected \in Dates \cup {NoDate} /\ expected = DayOf /\ f.lines \in Seq(Lines)
  BY DEF LoadTypes, LoadInv, Handed
<1>4. parsed.expected = DayOf' /\ kept = RowsInOrder(f.lines, DayOf') /\ expected' \in Dates \cup {NoDate}
  BY <1>1, <1>2, <1>3, ParsedIs
<1>5. kept \in Seq(RowOf) /\ total \in Totals
  BY <1>3, <1>4, InOrderType, SummedType
<1>6. Loaded
  BY DEF LoadInv
<1>7. /\ registry' \in Seq(Entries) /\ Grows(registry, registry')
      /\ IsKnown(registry', c) /\ id = IdOf(registry', c)
      /\ id \in DOMAIN registry' /\ registry'[id].expiry = c.expiry
      /\ ColumnOf(id) = total.column[c]
  BY <1>1, <1>2, <1>6, IdGiven
<1>8. \A other \in Contracts : other # c =>
        /\ IsKnown(registry', other) <=> IsKnown(registry, other)
        /\ IsKnown(registry, other) => IdOf(registry', other) = IdOf(registry, other) /\ IdOf(registry', other) # id
  BY <1>1, <1>2, <1>6, IdGiven
<1>9. taken' \in Seq(Handed) /\ DOMAIN session.column \subseteq DOMAIN registry' /\ kind' \in {"directory", "zip"}
  <2>1. DOMAIN session.column \subseteq DOMAIN registry
    BY DEF LoadTypes
  <2>2. \A i \in DOMAIN registry : i \in DOMAIN registry'
    BY <1>7 DEF Grows
  <2>3. taken' \in Seq(Handed) /\ kind' \in {"directory", "zip"}
    BY DEF LoadTypes
  <2>4. QED
    BY <2>1, <2>2, <2>3
<1>10. session # NullSession => DayOf # NoDate /\ session.date = DayOf
  BY <1>3 DEF LoadInv
<1>11. total.column \in [Contracts -> Seq(RowOf)] /\ total.kept \in Nat /\ total.lines \in Nat
  BY <1>5 DEF Totals
<1>12. /\ SoFarRead'.kept = total.kept + Len(kept) /\ SoFarRead'.lines = total.lines + Len(f.lines)
       /\ \A o \in Contracts : SoFarRead'.column[o] = IF o = c THEN total.column[o] \o kept ELSE total.column[o]
  BY <1>2, <1>4, <1>5, WithRowsType
<1>13. Len(kept) \in Nat /\ Len(f.lines) \in Nat
  BY <1>3, <1>5
<1> HIDE DEF id, parsed, kept, total
<1>14. CASE Throws(id, kept)
  <2>1. stage' = "thrown" /\ UNCHANGED <<session, rows, tally, expiries>>
    BY <1>1, <1>14
  <2>2. LoadTypes'
    BY <1>4, <1>7, <1>9, <2>1 DEF LoadTypes
  <2>3. total.column[c] # <<>>
    BY <1>7, <1>14 DEF Throws
  <2>4. PICK n \in 1 .. Len(taken) : n \in FilesRead /\ taken[n].contract = c
    <3> DEFINE given0 == RowsOf(taken, FilesRead, DateOf(given, taken, FilesRead))
    <3>1. RowsGiven(taken, given0) /\ taken \in Seq(Handed)
      BY FilesReadAre, RowsOfGiven DEF LoadTypes
    <3>2. DOMAIN given0 = FilesRead
      BY DEF RowsOf
    <3>3. total = Together(taken, given0)
      BY DEF total, SoFarRead, Summed
    <3> HIDE DEF given0
    <3>4. \E n \in 1 .. Len(taken) : n \in DOMAIN given0 /\ taken[n].contract = c
      BY <1>2, <2>3, <3>1, <3>3, RowsHaveFile
    <3>5. QED
      BY <3>2, <3>4
  <2>5. taken'[n] = taken[n] /\ taken'[Len(taken) + 1] = f /\ n # Len(taken) + 1
    BY FilesReadAre DEF LoadTypes
  <2>6. \E m, k \in FilesRead' : m # k /\ taken'[m].contract = taken'[k].contract
    BY <1>2, <2>4, <2>5
  <2>7. session' # NullSession => expected' # NoDate /\ session'.date = expected'
    BY <1>1, <1>2, <1>4, <1>10, <2>1
  <2>8. QED
    BY <1>1, <1>4, <2>1, <2>2, <2>6, <2>7 DEF LoadInv
<1>15. CASE ~Throws(id, kept)
  <2>1. /\ session' = IF kept = <<>> THEN session ELSE [date |-> parsed.expected, column |-> column]
        /\ rows' = [read |-> rows.read + Len(kept), skipped |-> rows.skipped + Len(f.lines) - Len(kept)]
        /\ expiries' = IF kind = "directory" THEN expiries \cup {c.expiry} ELSE expiries
        /\ stage' = "open"
    BY <1>1, <1>15
  <2>2. DOMAIN session'.column \subseteq DOMAIN session.column \cup {id}
        /\ \A i : HeldIn(session'.column, i) = IF i = id THEN ColumnOf(i) \o kept ELSE ColumnOf(i)
    <3>1. DOMAIN column = DOMAIN session.column \cup {id}
          /\ \A i \in DOMAIN column : column[i] = IF i = id THEN ColumnOf(id) \o kept ELSE session.column[i]
      OBVIOUS
    <3> HIDE DEF column
    <3>2. CASE kept = <<>>
      <4>1. session' = session
        BY <2>1, <3>2
      <4>2. ColumnOf(id) \o kept = ColumnOf(id)
        BY <1>2, <1>7, <1>11, <3>2
      <4>3. \A i : HeldIn(session'.column, i) = ColumnOf(i)
        BY <4>1 DEF ColumnOf, HeldIn
      <4>4. QED
        BY <4>1, <4>2, <4>3
    <3>3. CASE kept # <<>>
      <4>1. session'.column = column
        BY <2>1, <3>3
      <4>2. \A i : HeldIn(session'.column, i) = IF i \in DOMAIN column THEN column[i] ELSE <<>>
        BY <4>1 DEF HeldIn
      <4>3. \A i : i # id => HeldIn(session'.column, i) = ColumnOf(i)
        BY <3>1, <4>2 DEF ColumnOf
      <4>4. HeldIn(session'.column, id) = ColumnOf(id) \o kept
        BY <3>1, <4>2
      <4>5. QED
        BY <3>1, <4>1, <4>3, <4>4
    <3>4. QED
      BY <3>2, <3>3
  <2>3. LoadTypes'
    <3>1. DOMAIN session'.column \subseteq DOMAIN registry'
      BY <1>7, <1>9, <2>2
    <3>2. QED
      BY <1>4, <1>7, <1>9, <2>1, <3>1 DEF LoadTypes
  <2>4. session' # NullSession => expected' # NoDate /\ session'.date = expected'
    <3>1. CASE kept = <<>>
      BY <1>1, <1>2, <1>4, <1>10, <2>1, <3>1
    <3>2. CASE kept # <<>>
      <4>1. session'.date = expected'
        BY <1>1, <2>1, <3>2
      <4>2. DayOf' # NoDate
        <5> SUFFICES ASSUME DayOf' = NoDate PROVE FALSE
          OBVIOUS
        <5>1. \A i \in 1 .. Len(f.lines) : ~OfDay(f.lines[i], NoDate)
          <6> SUFFICES ASSUME NEW i \in 1 .. Len(f.lines), f.lines[i] # Torn PROVE f.lines[i].date # NoDate
            BY DEF OfDay
          <6>1. f.lines[i] \in Lines
            BY <1>3
          <6>2. QED
            BY <6>1, LineTypes
        <5>2. QED
          BY <1>3, <1>4, <3>2, <5>1, NoneInOrder
      <4>3. QED
        BY <1>1, <1>4, <4>1, <4>2
    <3>3. QED
      BY <3>1, <3>2
  <2>5. \A o \in Contracts :
          SoFarRead'.column[o] = IF IsKnown(registry', o) THEN HeldIn(session'.column, IdOf(registry', o)) ELSE <<>>
    <3> SUFFICES ASSUME NEW o \in Contracts
                 PROVE  SoFarRead'.column[o] = IF IsKnown(registry', o) THEN HeldIn(session'.column, IdOf(registry', o)) ELSE <<>>
      OBVIOUS
    <3>1. CASE o = c
      BY <1>7, <1>12, <2>2, <3>1
    <3>2. CASE o # c
      <4>1. SoFarRead'.column[o] = IF IsKnown(registry, o) THEN ColumnOf(IdOf(registry, o)) ELSE <<>>
        BY <1>6, <1>12, <3>2 DEF Loaded, total
      <4>2. QED
        BY <1>8, <2>2, <3>2, <4>1
    <3>3. QED
      BY <3>1, <3>2
  <2>6. rows' = [read |-> SoFarRead'.kept, skipped |-> SoFarRead'.lines - SoFarRead'.kept]
    <3>1. rows.read = total.kept /\ rows.skipped = total.lines - total.kept
      BY <1>6 DEF Loaded, total
    <3>2. QED
      BY <1>11, <1>12, <1>13, <2>1, <3>1
  <2>7. kind' = "directory" \/ stage' = "loaded" =>
          {registry'[i].expiry : i \in DOMAIN session'.column} \ {NoDate} \subseteq expiries'
    <3> SUFFICES ASSUME kind = "directory", NEW i \in DOMAIN session'.column, registry'[i].expiry # NoDate
                 PROVE  registry'[i].expiry \in expiries'
      BY <2>1
    <3>1. expiries' = expiries \cup {c.expiry}
      BY <2>1
    <3>2. CASE i = id
      BY <1>7, <3>1, <3>2
    <3>3. CASE i \in DOMAIN session.column
      <4>1. registry'[i] = registry[i]
        BY <1>7, <3>3 DEF Grows, LoadTypes
      <4>2. registry[i].expiry \in expiries
        BY <1>6, <3>3, <4>1 DEF Loaded
      <4>3. QED
        BY <3>1, <4>1, <4>2
    <3>4. QED
      BY <2>2, <3>2, <3>3
  <2>8. Loaded'
    BY <2>5, <2>6, <2>7 DEF Loaded, ColumnOf, HeldIn
  <2>9. QED
    BY <1>1, <1>4, <2>1, <2>3, <2>4, <2>8 DEF LoadInv
<1>16. QED
  BY <1>14, <1>15

LEMMA NextFileKeeps ==
  ASSUME LoadTypes, LoadInv, NextFile
  PROVE  LoadTypes' /\ LoadInv'
<1>1. stage = "open" /\ UNCHANGED <<kind, only, given>>
  BY DEF NextFile
<1>2. PICK contract \in Contracts \cup {Unparsable}, bytes \in {"lost", "none", "some"},
           n \in 0 .. MaxRows - LinesTaken :
        \E lines \in [1 .. n -> Lines] :
          LET f == [contract |-> contract, bytes |-> bytes, lines |-> lines]
          IN  (PassOver(f) \/ ReadFile(f)) /\ taken' = Append(taken, f)
  BY DEF NextFile
<1>3. PICK lines \in [1 .. n -> Lines] :
        LET f == [contract |-> contract, bytes |-> bytes, lines |-> lines]
        IN  (PassOver(f) \/ ReadFile(f)) /\ taken' = Append(taken, f)
  BY <1>2
<1> DEFINE f == [contract |-> contract, bytes |-> bytes, lines |-> lines]
<1>4. f \in Handed
  BY DEF Handed
<1>5. (PassOver(f) \/ ReadFile(f)) /\ taken' = Append(taken, f)
  BY <1>3
<1> HIDE DEF f
<1>6. QED
  BY <1>1, <1>4, <1>5, PassOverKeeps, ReadFileKeeps

\* LoadedAsPrinted: whatever the files of an archive hold, load_gfdl_day and
\* load_gfdl_zip leave every contract the rows of its files that are of the day and in
\* order, count every row once, and give up half way only over two files of one
\* contract.
THEOREM LoadsAsPrinted == LoadSpec => []LoadedAsPrinted
<1>1. LoadTypes /\ LoadInv /\ [LoadNext]_ivars => LoadTypes' /\ LoadInv'
  <2> SUFFICES ASSUME LoadTypes, LoadInv, [LoadNext]_ivars PROVE LoadTypes' /\ LoadInv'
    OBVIOUS
  <2>1. CASE UNCHANGED ivars
    <3>1. UNCHANGED <<registry, kind, only, expected, session, rows, tally, expiries, stage, given, taken>>
      BY <2>1 DEF ivars
    <3>2. LoadTypes'
      BY <3>1 DEF LoadTypes
    <3>3. FilesRead' = FilesRead
      BY <3>1 DEF FilesRead, PassesOver
    <3>4. DayOf' = DayOf /\ SoFarRead' = SoFarRead
      BY <3>1, <3>3 DEF DayOf, SoFarRead
    <3>5. Loaded' <=> Loaded
      BY <3>1, <3>4 DEF Loaded, ColumnOf
    <3>6. QED
      BY <3>1, <3>2, <3>3, <3>4, <3>5 DEF LoadInv
  <2>2. QED
    BY <2>1, OpenKeeps, CannotOpenKeeps, FinishKeeps, NextFileKeeps DEF LoadNext
<1>2. LoadTypes /\ LoadInv => LoadedAsPrinted
  <2> SUFFICES ASSUME LoadTypes, LoadInv PROVE LoadedAsPrinted
    OBVIOUS
  <2>1. SoFarRead = Together(taken, [n \in FilesRead |-> RowsInOrder(taken[n].lines, DayOf)])
    BY DayIs DEF SoFarRead, Summed, RowsOf
  <2>2. stage = "loaded" => Loaded
    BY DEF LoadInv
  <2>3. QED
    BY <2>1, <2>2 DEF LoadInv, Loaded, LoadedAsPrinted
<1>3. QED
  BY <1>1, <1>2, LoadInitTypes, PTL DEF LoadSpec
=============================================================================
