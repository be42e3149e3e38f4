---------------------------- MODULE SyncMapProofs ----------------------------
(***************************************************************************)
(* Proofs about SyncMap, for every set of goroutines, keys, values and     *)
(* entries, and whatever calls the goroutines make: the inductive          *)
(* invariant, and that sync.Map is linearizable.                           *)
(*                                                                         *)
(* A step changes little of the maps.  Fate says what may become of an     *)
(* entry, and the rest of the proof looks at the maps through it.          *)
(***************************************************************************)
EXTENDS SyncMap, FiniteSetTheorems, TLAPS

-----------------------------------------------------------------------------
(* Facts about the operators. *)

\* The number of keys of a map, which grows when a key is set.
LEMMA SizeIsNat ==
  ASSUME NEW m \in [Keys -> Entry0]
  PROVE  Size(m) \in Nat /\ Size(m) <= Cardinality(Keys) /\ Cardinality(Keys) \in Nat
<1>1. IsFiniteSet(Keys) /\ {k \in Keys : m[k] # None} \subseteq Keys
  BY SyncMapAssumption
<1>2. QED  BY <1>1, FS_Subset, FS_CardinalityType DEF Size

LEMMA SizeGrows ==
  ASSUME NEW m \in [Keys -> Entry0], NEW k \in Keys, NEW e \in Entries
  PROVE  LET n == [m EXCEPT ![k] = e] IN
           n \in [Keys -> Entry0] /\ Size(n) >= Size(m) /\ Size(n) >= 1
<1> DEFINE n == [m EXCEPT ![k] = e]
           S(f) == {j \in Keys : f[j] # None}
<1>1. n \in [Keys -> Entry0] /\ S(m) \subseteq S(n) /\ {k} \subseteq S(n)
  BY SyncMapAssumption DEF Entry0
<1>2. IsFiniteSet(S(n))
  BY SyncMapAssumption, FS_Subset
<1>3. Cardinality(S(m)) <= Cardinality(S(n)) /\ Cardinality({k}) <= Cardinality(S(n))
  BY <1>1, <1>2, FS_Subset
<1>4. Cardinality({k}) = 1
  BY FS_Singleton
<1>5. QED  BY <1>1, <1>3, <1>4, SizeIsNat DEF Size

\* What a goroutine is called with.
LEMMA CallTypes ==
  ASSUME TypeOK, NEW g \in Goroutines, call[g] # None
  PROVE  call[g].op \in Ops /\ call[g].key \in Keys /\ call[g].val \in Values
<1>1. call[g] \in [op : Ops, key : Keys, val : Values]
  BY SyncMapAssumption DEF TypeOK
<1>2. QED  BY <1>1

\* There is a new entry to insert.
LEMMA FreshEntry ==
  ASSUME ~(Entries \subseteq Live)
  PROVE  LET e == CHOOSE x \in Entries : x \notin Live IN e \in Entries /\ e \notin Live
OBVIOUS

LEMMA ResultTypes ==
  ASSUME NEW v \in Values \cup {None, nil, expunged}
  PROVE  /\ Found(v) \in Results
         /\ v \in Values => Found(v) = <<v, TRUE>>
         /\ v \notin Values => Found(v) = <<None, FALSE>>
BY DEF Found, Results

\* A result is not the absence of one.
LEMMA ResultIsSome ==
  ASSUME NEW r \in Results
  PROVE  r # <<>>
BY DEF Results

-----------------------------------------------------------------------------
(* Types. *)

LEMMA InitTypeOK == Init => TypeOK
<1> SUFFICES ASSUME Init PROVE TypeOK
  OBVIOUS
<1>1. Cardinality(Keys) \in Nat
  BY SyncMapAssumption, FS_CardinalityType
<1>2. misses \in 0 .. Cardinality(Keys)
  BY <1>1 DEF Init
<1>3. QED  BY <1>2 DEF Init, TypeOK, NoEntries, Entry0, PCs

\* The end of a call keeps the types.
LEMMA FinishTypes ==
  ASSUME TypeOK, NEW g \in Goroutines, call[g] # None,
         NEW r \in Results, Finish(g, r)
  PROVE  /\ pc' \in [Goroutines -> PCs]
         /\ ent' \in [Goroutines -> [Keys -> Entry0]]
         /\ out' \in [Goroutines -> [Keys -> Results \cup {<<>>}]]
<1>1. call[g].key \in Keys
  BY CallTypes
<1>2. QED  BY <1>1 DEF TypeOK, Finish, Hold, Goto, NoEntries, Entry0, PCs

LEMMA MissTypes ==
  ASSUME TypeOK, NEW d \in [Keys -> Entry0], MissLocked(d)
  PROVE  /\ read' \in [Keys -> Entry0] /\ amended' \in BOOLEAN
         /\ dirty' \in [Keys -> Entry0] \cup {nil}
         /\ misses' \in 0 .. Cardinality(Keys)
<1>1. Size(d) \in Nat /\ Size(d) <= Cardinality(Keys) /\ Cardinality(Keys) \in Nat
  BY SizeIsNat
<1>2. CASE misses + 1 < Size(d)
  BY <1>1, <1>2 DEF TypeOK, MissLocked
<1>3. CASE ~(misses + 1 < Size(d))
  <2>1. read' = d /\ amended' = FALSE /\ dirty' = nil /\ misses' = 0
    BY <1>3 DEF MissLocked, Promote
  <2>2. 0 \in 0 .. Cardinality(Keys)
    BY <1>1
  <2>3. QED  BY <2>1, <2>2
<1>4. QED  BY <1>2, <1>3

\* The value of an entry is a result.
LEMMA FoundTypes ==
  ASSUME TypeOK
  PROVE  /\ \A e \in Entries : Found(p[e]) \in Results
         /\ Found(None) = <<None, FALSE>>
         /\ Found(None) \in Results
BY SyncMapAssumption, ResultTypes DEF TypeOK, Found, Results

LEMMA FillTypes ==
  ASSUME TypeOK, NEW g \in Goroutines, call[g] # None, NEW e \in Entries, Fill(g, e)
  PROVE  /\ p' \in [Entries -> Values \cup {nil, expunged}]
         /\ pc' \in [Goroutines -> PCs]
         /\ ent' \in [Goroutines -> [Keys -> Entry0]]
         /\ out' \in [Goroutines -> [Keys -> Results \cup {<<>>}]]
<1>1. call[g].val \in Values
  BY CallTypes
<1>2. CASE call[g].op = "LoadOrStore" /\ p[e] \in Values
  BY <1>2, FinishTypes, FoundTypes DEF Fill, TypeOK
<1>3. CASE ~(call[g].op = "LoadOrStore" /\ p[e] \in Values)
  <2>1. <<call[g].val, FALSE>> \in Results
    BY <1>1 DEF Results
  <2>2. QED  BY <1>1, <1>3, <2>1, FinishTypes DEF Fill, TypeOK, SetP
<1>4. QED  BY <1>2, <1>3

LEMMA InsertTypes ==
  ASSUME TypeOK, NEW g \in Goroutines, call[g] # None, NEW d \in [Keys -> Entry0], Insert(g, d)
  PROVE  /\ dirty' \in [Keys -> Entry0]
         /\ p' \in [Entries -> Values \cup {nil, expunged}]
         /\ pc' \in [Goroutines -> PCs]
         /\ ent' \in [Goroutines -> [Keys -> Entry0]]
         /\ out' \in [Goroutines -> [Keys -> Results \cup {<<>>}]]
<1> DEFINE e == CHOOSE x \in Entries : x \notin Live
<1>1. e \in Entries
  BY FreshEntry DEF Insert
<1>2. call[g].key \in Keys /\ call[g].val \in Values
  BY CallTypes
<1>3. Finish(g, <<call[g].val, FALSE>>)
  BY DEF Insert
<1>4. dirty' = [d EXCEPT ![call[g].key] = e] /\ p' = [p EXCEPT ![e] = call[g].val]
  BY DEF Insert, SetP
<1> HIDE DEF e
<1>5. dirty' \in [Keys -> Entry0] /\ p' \in [Entries -> Values \cup {nil, expunged}]
  BY <1>1, <1>2, <1>4 DEF TypeOK, Entry0
<1>6. <<call[g].val, FALSE>> \in Results
  BY <1>2 DEF Results
<1>7. QED  BY <1>3, <1>5, <1>6, FinishTypes

-----------------------------------------------------------------------------
(* The control of a call. *)

\* A step of another goroutine.
Apart(h) ==
  /\ pc'[h] = pc[h] /\ call'[h] = call[h] /\ ent'[h] = ent[h] /\ out'[h] = out[h]
  /\ (mu' = h <=> mu = h)

LEMMA ApartFits ==
  ASSUME CallsFit, NEW h \in Goroutines, Apart(h)
  PROVE  CallFits(h)'
BY DEF CallsFit, CallFits, Apart, About, Decided

\* The end of a call that is about one key.
LEMMA FinishFits ==
  ASSUME TypeOK, CallsFit, NEW g \in Goroutines, call[g] # None, call[g].op # "Range",
         NEW r \in Results, Finish(g, r), call' = call, mu' # g
  PROVE  CallFits(g)'
<1>1. pc'[g] = "done" /\ ent'[g] = NoEntries /\ out'[g] = [out[g] EXCEPT ![call[g].key] = r]
  BY DEF Finish, Hold, Goto, TypeOK
<1>2. call[g].key \in Keys
  BY CallTypes
<1>3. out[g] \in [Keys -> Results \cup {<<>>}]
  BY DEF TypeOK
<1>4. \A k \in Keys : out'[g][k] # <<>> <=> k = call[g].key
  <2> TAKE k \in Keys
  <2>1. CASE k = call[g].key
    BY <1>1, <1>3, <2>1, ResultIsSome
  <2>2. CASE k # call[g].key
    <3>1. out'[g][k] = out[g][k]
      BY <1>1, <1>3, <2>2
    <3>2. ~About(g, k)
      BY <2>2 DEF About
    <3>3. QED  BY <2>2, <3>1, <3>2 DEF CallsFit, CallFits, Decided
  <2>3. QED  BY <2>1, <2>2
<1>5. \A k \in Keys : Decided(g, k)' <=> k = call[g].key
  BY <1>1 DEF Decided, About
<1>6. QED  BY <1>1, <1>4, <1>5 DEF CallFits, NoEntries

\* A call that has no result yet goes on.
LEMMA GoOnFits ==
  ASSUME TypeOK, CallsFit, NEW g \in Goroutines, call[g] # None, call[g].op # "Range",
         pc[g] \notin {"idle", "done"}, NEW label \in {"lock", "entry", "locked", "expunge"},
         Goto(g, label), call' = call, out' = out,
         label \in {"locked", "expunge"} <=> mu' = g,
         label \in {"locked", "expunge"} => call[g].op \in {"Store", "LoadOrStore"},
         \/ label = "expunge"
         \/ label = "lock" /\ ent'[g] = NoEntries
         \/ \E e \in Entries : label \in {"entry", "locked"} /\ ent'[g] = Only(call[g].key, e)
  PROVE  CallFits(g)'
<1>1. pc'[g] = label
  BY DEF Goto, TypeOK
<1>2. call[g].key \in Keys
  BY CallTypes
<1>3. \A k \in Keys : out'[g][k] = <<>> /\ ~Decided(g, k)'
  BY <1>1 DEF CallsFit, CallFits, Decided
<1>4. \A k \in Keys :
        /\ ent'[g][k] # None /\ label # "expunge" => label \in {"entry", "locked"} /\ k = call[g].key
        /\ k = call[g].key /\ label \in {"entry", "locked"} => ent'[g][k] # None
  BY <1>2, SyncMapAssumption DEF Only, NoEntries
<1>5. QED  BY <1>1, <1>3, <1>4 DEF CallFits, About

\* What a step does to the goroutines: the types, the control of its call, and
\* nothing to the others.
Control(g) == TypeOK' /\ CallsFit' /\ \A h \in Goroutines \ {g} : Apart(h)

LEMMA ControlIs ==
  ASSUME CallsFit, NEW g \in Goroutines, TypeOK', CallFits(g)',
         \A h \in Goroutines \ {g} : Apart(h)
  PROVE  Control(g)
BY ApartFits DEF Control, CallsFit

LEMMA FinishControl ==
  ASSUME TypeOK, CallsFit, NEW g \in Goroutines, call[g] # None, call[g].op # "Range",
         NEW r \in Results, Finish(g, r), call' = call, mu' \in {mu, None}, mu' # g,
         mu \in {None, g} \/ mu' = mu,
         read' \in [Keys -> Entry0], amended' \in BOOLEAN,
         dirty' \in [Keys -> Entry0] \cup {nil}, misses' \in 0 .. Cardinality(Keys),
         p' \in [Entries -> Values \cup {nil, expunged}]
  PROVE  Control(g)
<1>1. TypeOK'
  BY FinishTypes, SyncMapAssumption DEF TypeOK
<1>2. \A h \in Goroutines \ {g} : Apart(h)
  BY SyncMapAssumption DEF Apart, Finish, Hold, Goto, TypeOK
<1>3. QED  BY <1>1, <1>2, FinishFits, ControlIs

LEMMA GoOnControl ==
  ASSUME TypeOK, CallsFit, NEW g \in Goroutines, call[g] # None, call[g].op # "Range",
         pc[g] \notin {"idle", "done"}, NEW label \in {"lock", "entry", "locked", "expunge"},
         Goto(g, label), call' = call, out' = out, NEW m \in [Keys -> Entry0], Hold(g, m),
         \/ label = "expunge"
         \/ label = "lock" /\ m = NoEntries
         \/ \E e \in Entries : label \in {"entry", "locked"} /\ m = Only(call[g].key, e),
         \/ label \in {"locked", "expunge"} /\ mu = None /\ mu' = g
               /\ call[g].op \in {"Store", "LoadOrStore"}
         \/ label \notin {"locked", "expunge"} /\ mu' = mu /\ mu # g,
         read' \in [Keys -> Entry0], amended' \in BOOLEAN,
         dirty' \in [Keys -> Entry0] \cup {nil}, misses' \in 0 .. Cardinality(Keys),
         p' \in [Entries -> Values \cup {nil, expunged}]
  PROVE  Control(g)
<1>1. ent'[g] = m
  BY DEF Hold, TypeOK
<1>2. TypeOK'
  BY DEF Hold, Goto, TypeOK, PCs
<1>3. \A h \in Goroutines \ {g} : Apart(h)
  BY SyncMapAssumption DEF Apart, Hold, Goto, TypeOK
<1>4. CallFits(g)'
  BY <1>1, SyncMapAssumption, GoOnFits
<1>5. QED  BY <1>2, <1>3, <1>4, ControlIs

LEMMA OnlyTypes ==
  ASSUME NEW k \in Keys, NEW e \in Entry0
  PROVE  Only(k, e) \in [Keys -> Entry0] /\ NoEntries \in [Keys -> Entry0]
BY DEF Only, NoEntries, Entry0

LEMMA FillEnds ==
  ASSUME TypeOK, NEW g \in Goroutines, call[g] # None, NEW e \in Entries, Fill(g, e)
  PROVE  /\ \E r \in Results : Finish(g, r)
         /\ p' \in [Entries -> Values \cup {nil, expunged}]
         /\ \/ p' = p /\ call[g].op = "LoadOrStore" /\ p[e] \in Values
            \/ p' = [p EXCEPT ![e] = call[g].val] /\ call[g].val \in Values
                 /\ (call[g].op = "LoadOrStore" => p[e] \notin Values)
<1>1. call[g].val \in Values /\ <<call[g].val, FALSE>> \in Results
  BY CallTypes DEF Results
<1>2. QED  BY <1>1, FoundTypes, FillTypes DEF Fill, SetP

\* Who waits for mu, or for an entry without it, does not hold it.
LEMMA InCall ==
  ASSUME TypeOK, CallsFit, NEW g \in Goroutines, pc[g] # "idle"
  PROVE  /\ call[g] # None /\ call[g].op \in Ops /\ call[g].key \in Keys /\ call[g].val \in Values
         /\ pc[g] \notin {"locked", "expunge"} => mu # g
         /\ pc[g] \in {"locked", "expunge"} => mu = g /\ call[g].op \in {"Store", "LoadOrStore"}
         /\ pc[g] \notin {"entry", "locked", "expunge"} => ent[g] = NoEntries
         /\ pc[g] \in {"entry", "locked"} /\ call[g].op # "Range" =>
              \E e \in Entries : ent[g] = Only(call[g].key, e) /\ ent[g][call[g].key] = e
<1>1. call[g] # None
  BY DEF CallsFit, CallFits
<1>2. call[g].op \in Ops /\ call[g].key \in Keys /\ call[g].val \in Values
  BY <1>1, CallTypes
<1>3. ASSUME pc[g] \notin {"entry", "locked", "expunge"}
      PROVE  ent[g] = NoEntries
  BY <1>3 DEF CallsFit, CallFits, TypeOK, NoEntries
<1>4. ASSUME pc[g] \in {"entry", "locked"}, call[g].op # "Range"
      PROVE  \E e \in Entries : ent[g] = Only(call[g].key, e) /\ ent[g][call[g].key] = e
  <2> DEFINE e == ent[g][call[g].key]
  <2>1. e \in Entries
    BY <1>1, <1>2, <1>4 DEF CallsFit, CallFits, TypeOK, About, Entry0
  <2>2. \A k \in Keys : k # call[g].key => ent[g][k] = None
    BY <1>4 DEF CallsFit, CallFits, About
  <2>3. ent[g] = Only(call[g].key, e)
    BY <1>2, <2>1, <2>2 DEF Only, NoEntries, TypeOK
  <2>4. QED  BY <2>1, <2>3
<1>5. QED  BY <1>1, <1>2, <1>3, <1>4 DEF CallsFit, CallFits

LEMMA BeginControl ==
  ASSUME TypeOK, CallsFit, NEW g \in Goroutines, Begin(g)
  PROVE  Control(g)
<1>1. PICK c \in Calls[g] : call' = [call EXCEPT ![g] = c]
  BY DEF Begin
<1>2. c # None /\ c \in [op : Ops, key : Keys, val : Values]
  BY SyncMapAssumption
<1>3. call'[g] = c /\ \A h \in Goroutines \ {g} : call'[h] = call[h]
  BY <1>1 DEF TypeOK
<1>4. /\ call' \in [Goroutines -> [op : Ops, key : Keys, val : Values] \cup {None}]
      /\ \A h \in Goroutines : call'[h] \in Calls[h] \cup {None}
  BY <1>1, <1>2, <1>3 DEF TypeOK
<1>5. TypeOK'
  BY <1>4 DEF Begin, TypeOK, map, Goto, PCs
<1>6. pc[g] = "idle" /\ pc'[g] = "read" /\ ent'[g] = ent[g] /\ out'[g] = out[g] /\ mu' = mu
  BY DEF Begin, Goto, TypeOK
<1>7. \A h \in Goroutines \ {g} : Apart(h)
  BY <1>3 DEF Apart, Begin, Goto, TypeOK
<1>8. \A k \in Keys : out[g][k] = <<>> /\ ent[g][k] = None
  BY <1>6 DEF CallsFit, CallFits, About, Decided
<1>9. CallFits(g)'
  BY <1>2, <1>3, <1>6, <1>8 DEF CallsFit, CallFits, Decided
<1>10. QED  BY <1>5, <1>7, <1>9, ControlIs

LEMMA ReturnControl ==
  ASSUME TypeOK, CallsFit, NEW g \in Goroutines, Return(g)
  PROVE  Control(g)
<1>1. pc'[g] = "idle" /\ call'[g] = None /\ out'[g] = [k \in Keys |-> <<>>] /\ ent'[g] = ent[g] /\ mu' = mu
  BY DEF Return, Goto, TypeOK
<1>2. TypeOK'
  BY DEF Return, TypeOK, map, Goto, PCs
<1>3. \A h \in Goroutines \ {g} : Apart(h)
  BY DEF Apart, Return, Goto, TypeOK
<1>4. \A k \in Keys : ent[g][k] = None
  BY DEF Return, CallsFit, CallFits
<1>5. mu # g
  BY DEF Return, CallsFit, CallFits
<1>6. CallFits(g)'
  BY <1>1, <1>4, <1>5 DEF CallFits, About, Decided
<1>7. QED  BY <1>2, <1>3, <1>6, ControlIs

LEMMA LoadReadControl ==
  ASSUME TypeOK, CallsFit, NEW g \in Goroutines, LoadRead(g)
  PROVE  Control(g)
<1> DEFINE k == call[g].key
<1>1. /\ pc[g] = "read" /\ call[g] # None /\ call[g].op # "Range" /\ mu # g /\ k \in Keys
      /\ ent[g] = NoEntries
  BY InCall DEF LoadRead
<1>2. UNCHANGED <<map, mu, call>>
  BY DEF LoadRead
<1>3. /\ read' \in [Keys -> Entry0] /\ amended' \in BOOLEAN
      /\ dirty' \in [Keys -> Entry0] \cup {nil} /\ misses' \in 0 .. Cardinality(Keys)
      /\ p' \in [Entries -> Values \cup {nil, expunged}]
  BY <1>2 DEF TypeOK, map
<1>4. CASE read[k] # None
  <2>1. read[k] \in Entries /\ Only(k, read[k]) \in [Keys -> Entry0]
    BY <1>1, <1>4, OnlyTypes DEF TypeOK, Entry0
  <2>2. Hold(g, Only(k, read[k])) /\ Goto(g, "entry") /\ out' = out
    BY <1>4 DEF LoadRead
  <2>3. QED  BY <1>1, <1>2, <1>3, <2>1, <2>2, GoOnControl
<1>5. CASE read[k] = None /\ (amended \/ call[g].op \in {"Store", "LoadOrStore"})
  <2>1. Goto(g, "lock") /\ ent' = ent /\ out' = out
    BY <1>5 DEF LoadRead
  <2>2. Hold(g, NoEntries) /\ NoEntries \in [Keys -> Entry0]
    BY <1>1, <2>1 DEF Hold, TypeOK, NoEntries, Entry0
  <2>3. QED  BY <1>1, <1>2, <1>3, <2>1, <2>2, GoOnControl
<1>6. CASE read[k] = None /\ ~(amended \/ call[g].op \in {"Store", "LoadOrStore"})
  <2>1. Finish(g, Found(None)) /\ Found(None) \in Results
    BY <1>6, FoundTypes DEF LoadRead
  <2>2. QED  BY <1>1, <1>2, <1>3, <2>1, FinishControl
<1>7. QED  BY <1>4, <1>5, <1>6

LEMMA AccessEntryControl ==
  ASSUME TypeOK, CallsFit, NEW g \in Goroutines, AccessEntry(g)
  PROVE  Control(g)
<1> DEFINE e == ent[g][call[g].key]
<1>1. /\ pc[g] = "entry" /\ call[g] # None /\ call[g].op # "Range" /\ mu # g
      /\ call[g].key \in Keys /\ call[g].op \in Ops /\ e \in Entries
  BY InCall DEF AccessEntry
<1>2. UNCHANGED <<read, amended, dirty, misses, mu, call>>
  BY DEF AccessEntry
<1>3. /\ read' \in [Keys -> Entry0] /\ amended' \in BOOLEAN
      /\ dirty' \in [Keys -> Entry0] \cup {nil} /\ misses' \in 0 .. Cardinality(Keys)
  BY <1>2 DEF TypeOK
<1>4. Found(p[e]) \in Results
  BY <1>1, FoundTypes
<1>5. CASE call[g].op = "Load"
  <2>1. Finish(g, Found(p[e])) /\ p' \in [Entries -> Values \cup {nil, expunged}]
    BY <1>5 DEF AccessEntry, TypeOK
  <2>2. QED  BY <1>1, <1>2, <1>3, <1>4, <2>1, FinishControl
<1>6. CASE call[g].op = "LoadAndDelete"
  <2>1. Finish(g, Found(p[e])) /\ p' \in [Entries -> Values \cup {nil, expunged}]
    BY <1>6 DEF AccessEntry, Delete, SetP, TypeOK
  <2>2. QED  BY <1>1, <1>2, <1>3, <1>4, <2>1, FinishControl
<1>7. CASE call[g].op \in {"Store", "LoadOrStore"}
  <2>1. TryStore(g, e)
    BY <1>7 DEF AccessEntry
  <2>2. CASE p[e] = expunged
    <3>1. Goto(g, "lock") /\ Hold(g, NoEntries) /\ p' = p /\ out' = out /\ NoEntries \in [Keys -> Entry0]
      BY <2>1, <2>2 DEF TryStore, NoEntries, Entry0
    <3>2. p' \in [Entries -> Values \cup {nil, expunged}]
      BY <3>1 DEF TypeOK
    <3>3. QED  BY <1>1, <1>2, <1>3, <3>1, <3>2, GoOnControl
  <2>3. CASE p[e] # expunged
    <3>1. Fill(g, e)
      BY <2>1, <2>3 DEF TryStore
    <3>2. QED  BY <1>1, <1>2, <1>3, <3>1, FillEnds, FinishControl
  <2>4. QED  BY <2>2, <2>3
<1>8. QED  BY <1>1, <1>5, <1>6, <1>7 DEF Ops

LEMMA LoadLockedControl ==
  ASSUME TypeOK, CallsFit, amended => dirty # nil, NEW g \in Goroutines, LoadLocked(g)
  PROVE  Control(g)
<1> DEFINE k == call[g].key
           missed == read[k] = None /\ amended
           e == IF missed THEN dirty[k] ELSE read[k]
           d == IF call[g].op = "LoadAndDelete" THEN [dirty EXCEPT ![k] = None] ELSE dirty
<1>1. /\ pc[g] = "lock" /\ call[g] # None /\ call[g].op # "Range" /\ mu # g /\ k \in Keys
      /\ ent[g] = NoEntries
  BY InCall DEF LoadLocked
<1>2. UNCHANGED <<p, mu, call>>
  BY DEF LoadLocked
<1>3. e \in Entry0
  BY <1>1 DEF TypeOK
<1>4. /\ read' \in [Keys -> Entry0] /\ amended' \in BOOLEAN
      /\ dirty' \in [Keys -> Entry0] \cup {nil} /\ misses' \in 0 .. Cardinality(Keys)
  <2>1. CASE missed
    <3>1. d \in [Keys -> Entry0]
      BY <2>1 DEF TypeOK, Entry0
    <3>2. MissLocked(d)
      BY <2>1 DEF LoadLocked
    <3>3. QED  BY <3>1, <3>2, MissTypes
  <2>2. CASE ~missed
    BY <2>2 DEF LoadLocked, TypeOK
  <2>3. QED  BY <2>1, <2>2
<1>5. p' \in [Entries -> Values \cup {nil, expunged}]
  BY <1>2 DEF TypeOK
<1>6. CASE e = None
  <2>1. Finish(g, Found(None)) /\ Found(None) \in Results
    BY <1>6, FoundTypes DEF LoadLocked
  <2>2. QED  BY <1>1, <1>2, <1>4, <1>5, <2>1, FinishControl
<1>7. CASE e # None
  <2>1. Hold(g, Only(k, e)) /\ Goto(g, "entry") /\ out' = out
    BY <1>7 DEF LoadLocked
  <2>2. e \in Entries /\ Only(k, e) \in [Keys -> Entry0]
    BY <1>1, <1>3, <1>7, OnlyTypes DEF Entry0
  <2> HIDE DEF e
  <2>3. QED  BY <1>1, <1>2, <1>4, <1>5, <2>1, <2>2, GoOnControl
<1>8. QED  BY <1>6, <1>7

\* The ways of StoreLocked: the key is in m.read; or in m.dirty; or it goes into
\* the dirty map there is; or a dirty map is made first.
StoreInRead(g) ==
  LET k == call[g].key IN
    /\ read[k] # None
    /\ Unexpunge(k, read[k])
    /\ mu' = g /\ Hold(g, Only(k, read[k])) /\ Goto(g, "locked")
    /\ UNCHANGED <<read, amended, misses, out>>
StoreInDirty(g) ==
  LET k == call[g].key IN
    /\ read[k] = None /\ Has(dirty, k)
    /\ Fill(g, dirty[k])
    /\ IF call[g].op = "LoadOrStore" THEN MissLocked(dirty) ELSE UNCHANGED <<read, amended, dirty, misses>>
    /\ UNCHANGED mu
StoreNew(g) ==
  LET k == call[g].key IN
    /\ read[k] = None /\ ~Has(dirty, k) /\ amended
    /\ Insert(g, dirty)
    /\ UNCHANGED <<read, amended, misses, mu>>
MakeDirty(g) ==
  LET k == call[g].key IN
    /\ read[k] = None /\ ~Has(dirty, k) /\ ~amended
    /\ mu' = g /\ Goto(g, "expunge")
    /\ IF dirty = nil THEN dirty' = NoEntries /\ Hold(g, read)
                      ELSE UNCHANGED dirty /\ Hold(g, NoEntries)
    /\ UNCHANGED <<read, amended, misses, p, out>>

LEMMA StoreLockedWays ==
  ASSUME NEW g \in Goroutines, StoreLocked(g)
  PROVE  /\ pc[g] = "lock" /\ mu = None /\ call[g].op \in {"Store", "LoadOrStore"} /\ call' = call
         /\ StoreInRead(g) \/ StoreInDirty(g) \/ StoreNew(g) \/ MakeDirty(g)
BY DEF StoreLocked, StoreInRead, StoreInDirty, StoreNew, MakeDirty

LEMMA StoreLockedControl ==
  ASSUME TypeOK, CallsFit, EntriesConsistent, amended => dirty # nil, NEW g \in Goroutines, StoreLocked(g)
  PROVE  Control(g)
<1> DEFINE k == call[g].key
<1>1. /\ pc[g] = "lock" /\ call[g] # None /\ call[g].op # "Range" /\ mu = None /\ mu # g /\ k \in Keys
      /\ call[g].op \in {"Store", "LoadOrStore"} /\ ent[g] = NoEntries /\ call' = call
  BY StoreLockedWays, InCall
<1>2. CASE StoreInRead(g)
  <2>1. read[k] \in Entries /\ Only(k, read[k]) \in [Keys -> Entry0]
    BY <1>1, <1>2, OnlyTypes DEF StoreInRead, TypeOK, Entry0
  <2>2. Hold(g, Only(k, read[k])) /\ Goto(g, "locked") /\ mu' = g /\ out' = out
    BY <1>2 DEF StoreInRead
  <2>3. p' \in [Entries -> Values \cup {nil, expunged}]
    BY <1>2, <2>1 DEF StoreInRead, Unexpunge, SetP, TypeOK
  <2>4. dirty' \in [Keys -> Entry0] \cup {nil}
    <3>1. CASE dirty = nil
      <4>1. \A h \in Goroutines : pc[h] # "expunge"
        BY <1>1, SyncMapAssumption DEF CallsFit, CallFits
      <4>2. p[read[k]] # expunged
        BY <1>1, <1>2, <3>1, <4>1 DEF StoreInRead, EntriesConsistent
      <4>3. QED  BY <1>2, <3>1, <4>2 DEF StoreInRead, Unexpunge
    <3>2. CASE dirty # nil
      BY <1>1, <1>2, <2>1, <3>2 DEF StoreInRead, Unexpunge, TypeOK, Entry0
    <3>3. QED  BY <3>1, <3>2
  <2>5. read' \in [Keys -> Entry0] /\ amended' \in BOOLEAN /\ misses' \in 0 .. Cardinality(Keys)
    BY <1>2 DEF StoreInRead, TypeOK
  <2>6. QED  BY <1>1, <2>1, <2>2, <2>3, <2>4, <2>5, GoOnControl
<1>3. CASE StoreInDirty(g)
  <2>1. dirty \in [Keys -> Entry0] /\ dirty[k] \in Entries
    BY <1>1, <1>3 DEF StoreInDirty, Has, TypeOK, Entry0
  <2>2. Fill(g, dirty[k]) /\ mu' = mu
    BY <1>3 DEF StoreInDirty
  <2>3. /\ read' \in [Keys -> Entry0] /\ amended' \in BOOLEAN
        /\ dirty' \in [Keys -> Entry0] \cup {nil} /\ misses' \in 0 .. Cardinality(Keys)
    <3>1. CASE call[g].op = "LoadOrStore"
      BY <1>3, <2>1, <3>1, MissTypes DEF StoreInDirty
    <3>2. CASE call[g].op # "LoadOrStore"
      BY <1>3, <3>2 DEF StoreInDirty, TypeOK
    <3>3. QED  BY <3>1, <3>2
  <2>4. QED  BY <1>1, <2>1, <2>2, <2>3, FillEnds, FinishControl
<1>4. CASE StoreNew(g)
  <2>1. Insert(g, dirty) /\ dirty \in [Keys -> Entry0] /\ mu' = mu
    BY <1>4 DEF StoreNew, TypeOK
  <2>2. Finish(g, <<call[g].val, FALSE>>) /\ <<call[g].val, FALSE>> \in Results
    BY <1>1, <2>1, CallTypes DEF Insert, Results
  <2>3. read' \in [Keys -> Entry0] /\ amended' \in BOOLEAN /\ misses' \in 0 .. Cardinality(Keys)
    BY <1>4 DEF StoreNew, TypeOK
  <2>4. QED  BY <1>1, <2>1, <2>2, <2>3, InsertTypes, FinishControl
<1>5. CASE MakeDirty(g)
  <2>1. PICK m \in {read, NoEntries} : Hold(g, m)
    BY <1>5 DEF MakeDirty
  <2>2. m \in [Keys -> Entry0] /\ dirty' \in [Keys -> Entry0] \cup {nil}
    BY <1>5, <2>1 DEF MakeDirty, TypeOK, NoEntries, Entry0
  <2>3. Goto(g, "expunge") /\ mu' = g /\ out' = out
    BY <1>5 DEF MakeDirty
  <2>4. /\ read' \in [Keys -> Entry0] /\ amended' \in BOOLEAN /\ misses' \in 0 .. Cardinality(Keys)
        /\ p' \in [Entries -> Values \cup {nil, expunged}]
    BY <1>5 DEF MakeDirty, TypeOK
  <2>5. QED  BY <1>1, <2>1, <2>2, <2>3, <2>4, GoOnControl
<1>6. QED  BY <1>2, <1>3, <1>4, <1>5, StoreLockedWays

LEMMA FillLockedControl ==
  ASSUME TypeOK, CallsFit, NEW g \in Goroutines, FillLocked(g)
  PROVE  Control(g)
<1> DEFINE e == ent[g][call[g].key]
<1>1. /\ pc[g] = "locked" /\ call[g] # None /\ call[g].op # "Range" /\ mu = g /\ e \in Entries
  BY InCall DEF FillLocked
<1>2. Fill(g, e) /\ mu' = None /\ UNCHANGED <<read, amended, dirty, misses, call>>
  BY DEF FillLocked
<1>3. /\ read' \in [Keys -> Entry0] /\ amended' \in BOOLEAN
      /\ dirty' \in [Keys -> Entry0] \cup {nil} /\ misses' \in 0 .. Cardinality(Keys)
  BY <1>2 DEF TypeOK
<1>4. None # g
  BY SyncMapAssumption
<1>5. QED  BY <1>1, <1>2, <1>3, <1>4, FillEnds, FinishControl

LEMMA ExpungeControl ==
  ASSUME TypeOK, CallsFit, DirtyInTheMaking, NEW g \in Goroutines, Expunge(g)
  PROVE  Control(g)
<1>1. PICK k \in Keys :
        LET e == ent[g][k] IN
          /\ e # None
          /\ IF p[e] = nil THEN SetP(e, expunged) ELSE UNCHANGED p
          /\ dirty' = IF p[e] \in Values THEN [dirty EXCEPT ![k] = e] ELSE dirty
          /\ Hold(g, [ent[g] EXCEPT ![k] = None])
  BY DEF Expunge
<1>2. pc[g] = "expunge" /\ UNCHANGED <<read, amended, misses, mu, call, pc, out>>
  BY DEF Expunge
<1>3. ent[g][k] \in Entries /\ dirty \in [Keys -> Entry0]
  BY <1>1, <1>2 DEF TypeOK, Entry0, DirtyInTheMaking
<1>4. /\ dirty' \in [Keys -> Entry0]
      /\ p' \in [Entries -> Values \cup {nil, expunged}]
  BY <1>1, <1>3 DEF SetP, TypeOK, Entry0
<1>5. /\ ent' \in [Goroutines -> [Keys -> Entry0]]
      /\ ent'[g] = [ent[g] EXCEPT ![k] = None]
      /\ \A h \in Goroutines \ {g} : ent'[h] = ent[h]
  BY <1>1 DEF Hold, TypeOK, Entry0
<1>6. TypeOK'
  BY <1>2, <1>4, <1>5 DEF TypeOK
<1>7. \A h \in Goroutines \ {g} : Apart(h)
  BY <1>2, <1>5 DEF Apart
<1>8. CallFits(g)'
  BY <1>2, <1>5 DEF CallsFit, CallFits, About, Decided
<1>9. QED  BY <1>6, <1>7, <1>8, ControlIs

LEMMA PublishControl ==
  ASSUME TypeOK, CallsFit, DirtyInTheMaking, NEW g \in Goroutines, Publish(g)
  PROVE  Control(g)
<1>1. /\ pc[g] = "expunge" /\ call[g] # None /\ call[g].op # "Range" /\ mu = g
      /\ call[g].val \in Values
  BY InCall DEF Publish
<1>2. Insert(g, dirty) /\ dirty \in [Keys -> Entry0]
  BY <1>1 DEF Publish, TypeOK, DirtyInTheMaking
<1>3. Finish(g, <<call[g].val, FALSE>>) /\ <<call[g].val, FALSE>> \in Results
  BY <1>1, <1>2 DEF Insert, Results
<1>4. read' \in [Keys -> Entry0] /\ amended' \in BOOLEAN /\ misses' \in 0 .. Cardinality(Keys)
  BY DEF Publish, TypeOK
<1>5. mu' = None /\ None # g /\ call' = call
  BY SyncMapAssumption DEF Publish
<1>6. QED  BY <1>1, <1>2, <1>3, <1>4, <1>5, InsertTypes, FinishControl

\* Range is about every key.
LEMMA VisitControl ==
  ASSUME TypeOK, CallsFit, NEW g \in Goroutines, call[g] # None, call[g].op = "Range",
         mu # g, NEW m \in [Keys -> Entry0], Visit(g, m), UNCHANGED <<p, mu, call>>,
         read' \in [Keys -> Entry0], amended' \in BOOLEAN,
         dirty' \in [Keys -> Entry0] \cup {nil}, misses' \in 0 .. Cardinality(Keys)
  PROVE  Control(g)
<1>1. /\ ent'[g] = m /\ ent' \in [Goroutines -> [Keys -> Entry0]]
      /\ \A h \in Goroutines \ {g} : ent'[h] = ent[h]
  BY DEF Visit, Hold, TypeOK
<1>2. \A k \in Keys : (IF m[k] = None THEN Found(None) ELSE <<>>) \in Results \cup {<<>>}
  BY FoundTypes
<1>3. /\ out'[g] = [k \in Keys |-> IF m[k] = None THEN Found(None) ELSE <<>>]
      /\ out' \in [Goroutines -> [Keys -> Results \cup {<<>>}]]
      /\ \A h \in Goroutines \ {g} : out'[h] = out[h]
  BY <1>2 DEF Visit, TypeOK
<1>4. /\ pc'[g] = IF m = NoEntries THEN "done" ELSE "entry"
      /\ pc' \in [Goroutines -> PCs]
      /\ \A h \in Goroutines \ {g} : pc'[h] = pc[h]
  BY DEF Visit, Goto, TypeOK, PCs
<1>5. TypeOK'
  BY <1>1, <1>3, <1>4 DEF TypeOK
<1>6. \A h \in Goroutines \ {g} : Apart(h)
  BY <1>1, <1>3, <1>4 DEF Apart
<1>7. \A k \in Keys : out'[g][k] # <<>> <=> m[k] = None
  BY <1>3, FoundTypes, ResultIsSome
<1>8. m = NoEntries <=> \A k \in Keys : m[k] = None
  BY DEF NoEntries
<1>9. CallFits(g)'
  BY <1>1, <1>4, <1>7, <1>8 DEF CallFits, About, Decided
<1>10. QED  BY <1>5, <1>6, <1>9, ControlIs

LEMMA RangeReadControl ==
  ASSUME TypeOK, CallsFit, NEW g \in Goroutines, RangeRead(g)
  PROVE  Control(g)
<1>1. /\ pc[g] = "read" /\ call[g] # None /\ call[g].op = "Range" /\ mu # g /\ ent[g] = NoEntries
  BY InCall DEF RangeRead
<1>2. UNCHANGED <<map, mu, call>>
  BY DEF RangeRead
<1>3. CASE amended
  <2>1. Goto(g, "lock") /\ ent' = ent /\ out' = out
    BY <1>3 DEF RangeRead
  <2>2. TypeOK'
    BY <1>2, <2>1 DEF TypeOK, map, Goto, PCs
  <2>3. \A h \in Goroutines \ {g} : Apart(h)
    BY <1>2, <2>1 DEF Apart, Goto, TypeOK
  <2>4. pc'[g] = "lock"
    BY <2>1 DEF Goto, TypeOK
  <2>5. CallFits(g)'
    BY <1>1, <1>2, <2>1, <2>4 DEF CallsFit, CallFits, About, Decided
  <2>6. QED  BY <2>2, <2>3, <2>5, ControlIs
<1>4. CASE ~amended
  <2>1. Visit(g, read)
    BY <1>4 DEF RangeRead
  <2>2. /\ read' \in [Keys -> Entry0] /\ amended' \in BOOLEAN
        /\ dirty' \in [Keys -> Entry0] \cup {nil} /\ misses' \in 0 .. Cardinality(Keys)
        /\ UNCHANGED <<p, mu, call>> /\ read \in [Keys -> Entry0]
    BY <1>2 DEF TypeOK, map
  <2>3. QED  BY <1>1, <2>1, <2>2, VisitControl
<1>5. QED  BY <1>3, <1>4

LEMMA RangeLockedControl ==
  ASSUME TypeOK, CallsFit, amended => dirty # nil, NEW g \in Goroutines, RangeLocked(g)
  PROVE  Control(g)
<1>1. /\ pc[g] = "lock" /\ call[g] # None /\ call[g].op = "Range" /\ mu # g
  BY InCall DEF RangeLocked
<1>2. UNCHANGED <<p, mu, call>> /\ Visit(g, read')
  BY DEF RangeLocked
<1>3. /\ read' \in [Keys -> Entry0] /\ amended' \in BOOLEAN
      /\ dirty' \in [Keys -> Entry0] \cup {nil} /\ misses' \in 0 .. Cardinality(Keys)
  <2>1. CASE amended
    <3>1. read' = dirty /\ amended' = FALSE /\ dirty' = nil /\ misses' = 0 /\ dirty \in [Keys -> Entry0]
      BY <2>1 DEF RangeLocked, Promote, TypeOK
    <3>2. 0 \in 0 .. Cardinality(Keys)
      BY SyncMapAssumption, FS_CardinalityType
    <3>3. QED  BY <3>1, <3>2
  <2>2. CASE ~amended
    BY <2>2 DEF RangeLocked, TypeOK
  <2>3. QED  BY <2>1, <2>2
<1>4. QED  BY <1>1, <1>2, <1>3, VisitControl

LEMMA RangeEntryControl ==
  ASSUME TypeOK, CallsFit, NEW g \in Goroutines, RangeEntry(g)
  PROVE  Control(g)
<1>1. PICK k \in Keys :
        /\ ent[g][k] # None
        /\ out' = [out EXCEPT ![g][k] = Found(p[ent[g][k]])]
        /\ Hold(g, [ent[g] EXCEPT ![k] = None])
        /\ Goto(g, IF ent'[g] = NoEntries THEN "done" ELSE "entry")
  BY DEF RangeEntry
<1>2. /\ pc[g] = "entry" /\ call[g] # None /\ call[g].op = "Range" /\ mu # g
  BY InCall DEF RangeEntry
<1>3. UNCHANGED <<map, mu, call>>
  BY DEF RangeEntry
<1>4. /\ ent'[g] = [ent[g] EXCEPT ![k] = None] /\ ent' \in [Goroutines -> [Keys -> Entry0]]
      /\ \A h \in Goroutines \ {g} : ent'[h] = ent[h]
  BY <1>1 DEF Hold, TypeOK, Entry0
<1>5. Found(p[ent[g][k]]) \in Results
  <2>1. ent[g][k] \in Entries
    BY <1>1 DEF TypeOK, Entry0
  <2>2. QED  BY <2>1, FoundTypes
<1>6. /\ out'[g] = [out[g] EXCEPT ![k] = Found(p[ent[g][k]])]
      /\ out' \in [Goroutines -> [Keys -> Results \cup {<<>>}]]
      /\ \A h \in Goroutines \ {g} : out'[h] = out[h]
  BY <1>1, <1>5 DEF TypeOK
<1>7. /\ pc'[g] = IF ent'[g] = NoEntries THEN "done" ELSE "entry"
      /\ pc' \in [Goroutines -> PCs]
      /\ \A h \in Goroutines \ {g} : pc'[h] = pc[h]
  BY <1>1 DEF Goto, TypeOK, PCs
<1>8. TypeOK'
  BY <1>3, <1>4, <1>6, <1>7 DEF TypeOK, map
<1>9. \A h \in Goroutines \ {g} : Apart(h)
  BY <1>3, <1>4, <1>6, <1>7 DEF Apart
<1>10. \A j \in Keys : out'[g][j] # <<>> <=> ent'[g][j] = None
  <2> TAKE j \in Keys
  <2>1. CASE j = k
    BY <1>4, <1>5, <1>6, <2>1, ResultIsSome DEF TypeOK
  <2>2. CASE j # k
    <3>1. out'[g][j] = out[g][j] /\ ent'[g][j] = ent[g][j]
      BY <1>4, <1>6, <2>2 DEF TypeOK
    <3>2. QED  BY <1>2, <3>1 DEF CallsFit, CallFits, About, Decided
  <2>3. QED  BY <2>1, <2>2
<1>11. ent'[g] = NoEntries <=> \A j \in Keys : ent'[g][j] = None
  BY <1>4 DEF NoEntries
<1>12. CallFits(g)'
  BY <1>2, <1>3, <1>7, <1>10, <1>11 DEF CallFits, About, Decided
<1>13. QED  BY <1>8, <1>9, <1>12, ControlIs

\* Every step keeps the types and the control.
LEMMA StepControl ==
  ASSUME IInv, NEW g \in Goroutines, Step(g)
  PROVE  Control(g)
<1> TypeOK /\ CallsFit /\ EntriesConsistent /\ DirtyInTheMaking /\ (amended => dirty # nil)
  BY DEF IInv, EntriesConsistent, MissesFit
<1>1. CASE Begin(g) \/ Return(g) \/ LoadRead(g) \/ AccessEntry(g)
  BY <1>1, BeginControl, ReturnControl, LoadReadControl, AccessEntryControl
<1>2. CASE LoadLocked(g) \/ StoreLocked(g) \/ FillLocked(g)
  BY <1>2, LoadLockedControl, StoreLockedControl, FillLockedControl
<1>3. CASE Expunge(g) \/ Publish(g)
  BY <1>3, ExpungeControl, PublishControl
<1>4. CASE RangeRead(g) \/ RangeLocked(g) \/ RangeEntry(g)
  BY <1>4, RangeReadControl, RangeLockedControl, RangeEntryControl
<1>5. QED  BY <1>1, <1>2, <1>3, <1>4 DEF Step

-----------------------------------------------------------------------------
(* The maps. *)

MapFits == EntriesConsistent /\ DirtyInTheMaking /\ MissesFit

\* What becomes of an entry e of key k when g takes a step.
Fate(g) ==
  \A k \in Keys, e \in Entries :
    \* Only a new entry gets a key.
    /\ Uses(e, k)' => Uses(e, k) \/ (e \notin Live /\ k = call[g].key)
    \* Who has left the maps stays out, and a LoadAndDelete alone changes it.
    /\ Uses(e, k) /\ Gone(e, k) =>
         /\ Gone(e, k)'
         /\ \/ p'[e] = p[e]
            \/ /\ pc[g] = "entry" /\ ent[g][k] = e /\ ent'[g][k] = None
               /\ call[g].op = "LoadAndDelete" /\ p[e] \in Values /\ p'[e] = nil
    \* An entry leaves the maps expunged, or with the value of its key.
    /\ ~Gone(e, k) /\ Gone(e, k)' =>
         /\ Value(k)' = None /\ p' = p
         /\ \/ e = read[k] /\ p[e] = expunged
            \/ e # read[k] /\ read[k] = None /\ Has(dirty, k) /\ dirty[k] = e /\ p[e] = Value(k)
    /\ read[k] = e => read'[k] = e \/ Gone(e, k)'
    \* Entries are taken from the maps.
    /\ \A h \in Goroutines : ent'[h][k] = e /\ ent[h][k] # e =>
         /\ h = g
         /\ \/ read'[k] = e
            \/ /\ read[k] = None /\ Has(dirty, k) /\ dirty[k] = e /\ p' = p
               /\ \/ call[g].op = "Load" /\ ~Gone(e, k)'
                  \/ call[g].op = "LoadAndDelete" /\ Gone(e, k)'
    \* What only the dirty map has is new, or was there before.
    /\ read'[k] = None /\ Has(dirty, k)' /\ dirty'[k] = e =>
         \/ read[k] = None /\ Has(dirty, k) /\ dirty[k] = e /\ (p'[e] = p[e] \/ p'[e] \in Values)
         \/ e \notin Live /\ p'[e] \in Values
    \* Nobody else touches m.read while g holds mu, or expunges an entry.
    /\ mu # None /\ mu # g => read' = read
    /\ mu # None /\ mu # g /\ read[k] = e /\ p[e] # expunged => p'[e] # expunged

\* A step that leaves the maps alone, and takes what m.read has.
LEMMA QuietFate ==
  ASSUME IInv, NEW g \in Goroutines, Control(g), UNCHANGED <<read, amended, dirty, p>>,
         \A k \in Keys : ent'[g][k] \in {None, ent[g][k], read[k]}
  PROVE  Fate(g)
<1> SUFFICES ASSUME NEW k \in Keys, NEW e \in Entries
             PROVE  Fate(g)!(k, e)
  BY DEF Fate
<1>1. \A h \in Goroutines : ent'[h][k] = e /\ ent[h][k] # e => h = g /\ read[k] = e
  BY SyncMapAssumption DEF Control, Apart
<1>2. Gone(e, k)' <=> Gone(e, k)
  BY DEF Gone
<1>3. Uses(e, k)' => Uses(e, k)
  BY <1>1, <1>2 DEF Uses, Gone
<1>4. QED  BY <1>1, <1>2, <1>3

\* A step that writes to the pointer of an entry that is not expunged: the one its
\* goroutine has, or finds in the dirty map.
Writes(g, e, v) ==
  /\ p[e] # expunged /\ v \in Values \cup {nil} /\ p' = [p EXCEPT ![e] = v]
  /\ UNCHANGED <<read, amended, dirty>>
  /\ ent'[g] = NoEntries /\ call[g].key \in Keys
  /\ \/ v \in Values /\ ~Gone(e, call[g].key)
     \/ /\ ent[g][call[g].key] = e /\ pc[g] = "entry" /\ call[g].op \in {"Store", "LoadOrStore"}
        /\ v \in Values
     \/ /\ ent[g][call[g].key] = e /\ pc[g] = "entry" /\ call[g].op = "LoadAndDelete"
        /\ p[e] \in Values /\ v = nil

LEMMA WriteFate ==
  ASSUME IInv, NEW g \in Goroutines, Control(g), NEW a \in Entries, NEW v, Writes(g, a, v)
  PROVE  Fate(g)
<1> SUFFICES ASSUME NEW k \in Keys, NEW e \in Entries
             PROVE  Fate(g)!(k, e)
  BY DEF Fate
<1> DEFINE key == call[g].key
<1>1. key \in Keys /\ Uses(a, key) /\ (ent[g][key] = a \/ ~Gone(a, key))
  BY DEF Writes, Uses
<1>2. /\ \A x \in Entries : x # a => p'[x] = p[x]
      /\ p'[a] = v /\ v # expunged
  BY SyncMapAssumption DEF Writes, IInv, EntriesConsistent, TypeOK
<1>3. ASSUME NEW h \in Goroutines, ent'[h][k] = e
      PROVE  ent[h][k] = e
  BY <1>3, SyncMapAssumption DEF Control, Apart, Writes, NoEntries
<1>4. Gone(e, k)' <=> Gone(e, k)
  BY DEF Gone, Writes
<1>5. Uses(e, k)' => Uses(e, k)
  BY <1>3, <1>4 DEF Uses
<1>6. Uses(e, k) /\ e = a => k = key
  BY <1>1 DEF IInv, OneKey
<1>7. ASSUME Uses(e, k), Gone(e, k), e = a
      PROVE  /\ pc[g] = "entry" /\ ent[g][k] = e /\ ent'[g][k] = None
             /\ call[g].op = "LoadAndDelete" /\ p[e] \in Values /\ p'[e] = nil
  <2>1. k = key /\ ent[g][k] = a /\ ent'[g][k] = None
    BY <1>1, <1>6, <1>7 DEF Writes, NoEntries
  <2>2. pc[g] = "entry" /\ call[g].op \in {"Store", "LoadOrStore", "LoadAndDelete"}
    BY <1>7, <2>1 DEF Writes
  <2>3. e # None /\ e # read[k]
    BY <1>7, SyncMapAssumption DEF Gone
  <2>4. call[g].op = "LoadAndDelete"
    BY <1>7, <2>1, <2>2, <2>3 DEF IInv, HoldersFit, Writes
  <2>5. p[e] \in Values /\ v = nil
    BY <1>7, <2>1, <2>4 DEF Writes
  <2>6. QED  BY <1>2, <1>7, <2>1, <2>2, <2>4, <2>5
<1>8. ASSUME read[k] = None, Has(dirty, k), dirty[k] = e
      PROVE  p'[e] = p[e] \/ p'[e] \in Values
  <2>1. CASE e = a
    <3>1. k = key
      BY <1>6, <1>8, <2>1, SyncMapAssumption DEF Uses, Gone, Has
    <3>2. ent[g][k] = e => call[g].op = "Load"
      BY <1>8 DEF IInv, DirtyHasValues
    <3>3. v \in Values
      BY <2>1, <3>1, <3>2 DEF Writes
    <3>4. QED  BY <1>2, <2>1, <3>3
  <2>2. QED  BY <1>2, <2>1
<1>9. UNCHANGED <<read, dirty>>
  BY DEF Writes
<1>10. p[e] # expunged => p'[e] # expunged
  BY <1>2
<1>11. QED  BY <1>2, <1>3, <1>4, <1>5, <1>7, <1>8, <1>9, <1>10 DEF Has

\* The maps are as good as before if no entry gets expunged or comes back.
LEMMA QuietMap ==
  ASSUME IInv, NEW g \in Goroutines, Control(g), UNCHANGED <<read, amended, dirty, misses>>,
         \A e \in Entries : p'[e] = expunged <=> p[e] = expunged,
         pc[g] # "expunge", pc'[g] # "expunge"
  PROVE  MapFits'
<1>1. TypeOK /\ TypeOK'
  BY DEF IInv, EntriesConsistent, Control
<1>2. \A h \in Goroutines : (pc'[h] = "expunge" <=> pc[h] = "expunge") /\ (pc[h] = "expunge" => ent'[h] = ent[h] /\ call'[h] = call[h])
  BY DEF Control, Apart
<1>3. DirtyInTheMaking'
  BY <1>2 DEF IInv, DirtyInTheMaking
<1>4. MissesFit'
  BY <1>2 DEF IInv, MissesFit, Size
<1>5. \A k \in Keys : read[k] # None => read[k] \in Entries
  BY <1>1 DEF TypeOK, Entry0
<1>6. \A k \in Keys : Has(dirty, k) => dirty[k] \in Entries
  BY <1>1 DEF TypeOK, Entry0, Has
<1>7. mu' = None => \A h \in Goroutines : pc'[h] # "expunge"
  BY SyncMapAssumption DEF Control, CallsFit, CallFits
<1>8. EntriesConsistent'
  <2>1. \A k \in Keys :
          read'[k] # None /\ ~(\E h \in Goroutines : pc'[h] = "expunge" /\ ent'[h][k] # None) =>
            (p'[read'[k]] = expunged <=> dirty' # nil /\ dirty'[k] # read'[k])
    BY <1>2, <1>5 DEF IInv, EntriesConsistent
  <2>2. \A k \in Keys : Has(dirty, k)' => p'[dirty'[k]] # expunged /\ read'[k] \in {None, dirty'[k]}
    BY <1>6 DEF IInv, EntriesConsistent, Has
  <2>3. mu' = None => (amended' <=> dirty' # nil)
    BY <1>4, <1>7 DEF MissesFit
  <2>4. dirty' # nil => misses' < Size(dirty)' \/ mu' # None
    BY <1>4, <2>3 DEF MissesFit
  <2>5. QED  BY <1>1, <2>1, <2>2, <2>3, <2>4 DEF EntriesConsistent
<1>9. QED  BY <1>3, <1>4, <1>8 DEF MapFits

\* missLocked, and Range's promotion, of a dirty map d from which a LoadAndDelete
\* may have taken its key.
Misses(g, d) ==
  /\ mu = None /\ mu' = None /\ amended /\ p' = p /\ d \in [Keys -> Entry0]
  /\ MissLocked(d) \/ Promote(d)
  /\ \/ d = dirty
     \/ /\ call[g].op = "LoadAndDelete" /\ call[g].key \in Keys
        /\ read[call[g].key] = None /\ d = [dirty EXCEPT ![call[g].key] = None]
  /\ \A k \in Keys :
       \/ ent'[g][k] \in {None, read'[k]}
       \/ /\ read[k] = None /\ ent'[g][k] = dirty[k]
          /\ call[g].op = "Load" \/ (call[g].op = "LoadAndDelete" /\ d[k] = None)

LEMMA MissFacts ==
  ASSUME IInv, NEW g \in Goroutines, NEW d, Misses(g, d)
  PROVE  /\ dirty # nil /\ dirty \in [Keys -> Entry0] /\ d # nil
         /\ \A h \in Goroutines : pc[h] # "expunge"
         /\ \A k \in Keys : /\ d[k] = dirty[k] \/ (read[k] = None /\ d[k] = None)
                            /\ read[k] # None => d[k] = dirty[k]
                            /\ dirty[k] # None => read[k] \in {None, dirty[k]} /\ p[dirty[k]] # expunged
                            /\ read[k] # None => (p[read[k]] = expunged <=> dirty[k] # read[k])
         /\ \/ read' = d /\ amended' = FALSE /\ dirty' = nil /\ misses' = 0
            \/ read' = read /\ amended' = amended /\ dirty' = d /\ misses' = misses + 1 /\ misses + 1 < Size(d)
<1>1. dirty # nil /\ dirty \in [Keys -> Entry0] /\ d # nil
  BY SyncMapAssumption DEF Misses, IInv, MissesFit, EntriesConsistent, TypeOK, Entry0
<1>2. \A h \in Goroutines : pc[h] # "expunge"
  BY SyncMapAssumption DEF Misses, IInv, CallsFit, CallFits
<1>3. \A k \in Keys : d[k] = dirty[k] \/ (read[k] = None /\ d[k] = None)
  BY <1>1 DEF Misses
<1>4. \A k \in Keys :
         /\ dirty[k] # None => read[k] \in {None, dirty[k]} /\ p[dirty[k]] # expunged
         /\ read[k] # None => (p[read[k]] = expunged <=> dirty[k] # read[k])
  BY <1>1, <1>2 DEF IInv, EntriesConsistent, Has
<1>5. \/ read' = d /\ amended' = FALSE /\ dirty' = nil /\ misses' = 0
      \/ read' = read /\ amended' = amended /\ dirty' = d /\ misses' = misses + 1 /\ misses + 1 < Size(d)
  BY DEF Misses, MissLocked, Promote
<1>6. QED  BY <1>1, <1>2, <1>3, <1>4, <1>5

LEMMA MissFate ==
  ASSUME IInv, NEW g \in Goroutines, Control(g), NEW d, Misses(g, d)
  PROVE  Fate(g)
<1> SUFFICES ASSUME NEW k \in Keys, NEW e \in Entries
             PROVE  Fate(g)!(k, e)
  BY DEF Fate
<1>1. /\ dirty # nil /\ dirty \in [Keys -> Entry0] /\ d # nil
      /\ d[k] = dirty[k] \/ (read[k] = None /\ d[k] = None)
      /\ read[k] # None => d[k] = dirty[k]
      /\ dirty[k] # None => read[k] \in {None, dirty[k]}
      /\ read[k] # None => (p[read[k]] = expunged <=> dirty[k] # read[k])
  BY MissFacts
<1>2. \/ read' = d /\ amended' = FALSE /\ dirty' = nil
      \/ read' = read /\ amended' = amended /\ dirty' = d
  BY MissFacts
<1>3. e # None /\ mu = None /\ p' = p /\ amended
  BY SyncMapAssumption DEF Misses
<1>4. Gone(e, k) <=> read[k] # e /\ dirty[k] # e
  BY <1>1 DEF Gone
<1>5. Gone(e, k)' <=> read'[k] # e /\ (dirty' = nil \/ dirty'[k] # e)
  BY DEF Gone
<1>6. Gone(e, k) => Gone(e, k)'
  BY <1>1, <1>2, <1>3, <1>4, <1>5
<1>7. \A h \in Goroutines : ent'[h][k] = e /\ ent[h][k] # e =>
        /\ h = g
        /\ \/ read'[k] = e
           \/ /\ read[k] = None /\ dirty[k] = e
              /\ \/ call[g].op = "Load" /\ d = dirty
                 \/ call[g].op = "LoadAndDelete" /\ d[k] = None
  BY <1>3 DEF Control, Apart, Misses
<1>8. dirty[k] = e => Has(dirty, k)
  BY <1>1, <1>3 DEF Has
<1>9. ASSUME d[k] = None, dirty[k] = e, read[k] = None
      PROVE  Gone(e, k)'
  BY <1>2, <1>3, <1>5, <1>9
<1>9a. ASSUME d = dirty, dirty[k] = e
       PROVE  ~Gone(e, k)'
  BY <1>1, <1>2, <1>5, <1>9a
<1>10. Uses(e, k)' => Uses(e, k)
  BY <1>3, <1>4, <1>6, <1>7, <1>5, <1>2, <1>1 DEF Uses
<1>11. ASSUME ~Gone(e, k), Gone(e, k)'
       PROVE  /\ Value(k)' = None /\ p' = p
              /\ \/ e = read[k] /\ p[e] = expunged
                 \/ e # read[k] /\ read[k] = None /\ Has(dirty, k) /\ dirty[k] = e /\ p[e] = Value(k)
  <2>1. CASE e = read[k]
    <3>1. read' = d /\ amended' = FALSE /\ d[k] = dirty[k] /\ dirty[k] # e
      BY <1>1, <1>2, <1>3, <1>5, <1>11, <2>1
    <3>2. dirty[k] = None /\ p[e] = expunged
      BY <1>1, <1>3, <2>1, <3>1
    <3>3. Value(k)' = None
      BY <3>1, <3>2 DEF Value, EntryOf
    <3>4. QED  BY <1>3, <2>1, <3>2, <3>3
  <2>2. CASE e # read[k]
    <3>1. dirty[k] = e /\ read[k] = None /\ d[k] = None
      BY <1>1, <1>2, <1>3, <1>4, <1>5, <1>11, <2>2
    <3>2. p[e] \in Values
      BY <1>8, <3>1 DEF IInv, DirtyHasValues
    <3>3. p[e] = Value(k)
      BY <1>3, <3>1, <3>2 DEF Value, EntryOf
    <3>4. Value(k)' = None
      BY <1>2, <3>1 DEF Value, EntryOf
    <3>5. QED  BY <1>3, <1>8, <2>2, <3>1, <3>3, <3>4
  <2>3. QED  BY <2>1, <2>2
<1>12. read[k] = e => read'[k] = e \/ Gone(e, k)'
  BY <1>2, <1>5
<1>13. \A h \in Goroutines : ent'[h][k] = e /\ ent[h][k] # e =>
         /\ h = g
         /\ \/ read'[k] = e
            \/ /\ read[k] = None /\ Has(dirty, k) /\ dirty[k] = e /\ p' = p
               /\ \/ call[g].op = "Load" /\ ~Gone(e, k)'
                  \/ call[g].op = "LoadAndDelete" /\ Gone(e, k)'
  BY <1>3, <1>7, <1>8, <1>9, <1>9a
<1>14. read'[k] = None /\ Has(dirty, k)' /\ dirty'[k] = e =>
         read[k] = None /\ Has(dirty, k) /\ dirty[k] = e /\ p'[e] = p[e]
  BY <1>1, <1>2, <1>3, <1>8 DEF Has
<1>15. QED  BY <1>3, <1>6, <1>10, <1>11, <1>12, <1>13, <1>14

LEMMA MissMap ==
  ASSUME IInv, NEW g \in Goroutines, Control(g), NEW d, Misses(g, d)
  PROVE  MapFits'
<1>1. /\ dirty # nil /\ dirty \in [Keys -> Entry0] /\ d # nil
      /\ \A h \in Goroutines : pc[h] # "expunge"
      /\ \A k \in Keys : /\ d[k] = dirty[k] \/ (read[k] = None /\ d[k] = None)
                         /\ read[k] # None => d[k] = dirty[k]
                         /\ dirty[k] # None => read[k] \in {None, dirty[k]} /\ p[dirty[k]] # expunged
                         /\ read[k] # None => (p[read[k]] = expunged <=> dirty[k] # read[k])
  BY MissFacts
<1>2. \/ read' = d /\ amended' = FALSE /\ dirty' = nil /\ misses' = 0
      \/ read' = read /\ amended' = amended /\ dirty' = d /\ misses' = misses + 1 /\ misses + 1 < Size(d)
  BY MissFacts
<1>3. p' = p /\ mu' = None /\ amended
  BY DEF Misses
<1>4. \A h \in Goroutines : pc'[h] # "expunge"
  BY <1>3, SyncMapAssumption DEF Control, CallsFit, CallFits
<1>5. DirtyInTheMaking'
  BY <1>4 DEF DirtyInTheMaking
<1>6. MissesFit'
  BY <1>1, <1>2, <1>3 DEF MissesFit, Size
<1>7. \A k \in Keys : read'[k] # None => (p'[read'[k]] = expunged <=> dirty' # nil /\ dirty'[k] # read'[k])
  BY <1>1, <1>2, <1>3
<1>8. \A k \in Keys : Has(dirty, k)' => p'[dirty'[k]] # expunged /\ read'[k] \in {None, dirty'[k]}
  BY <1>1, <1>2, <1>3 DEF Has
<1>9. EntriesConsistent'
  BY <1>1, <1>2, <1>3, <1>6, <1>7, <1>8 DEF EntriesConsistent, MissesFit, Control
<1>10. QED  BY <1>5, <1>6, <1>9 DEF MapFits

\* A key goes into the dirty map, at the end of a Store.
Inserts(g) ==
  /\ Insert(g, dirty) /\ dirty \in [Keys -> Entry0] /\ call[g].key \in Keys /\ call[g].val \in Values
  /\ read[call[g].key] = None /\ dirty[call[g].key] = None
  /\ mu \in {None, g} /\ mu' = None /\ UNCHANGED <<read, misses>> /\ amended' = TRUE
  /\ \A h \in Goroutines, k \in Keys : pc[h] = "expunge" => ent[h][k] = None

LEMMA InsertFacts ==
  ASSUME IInv, NEW g \in Goroutines, Inserts(g)
  PROVE  \E a \in Entries :
           /\ a \notin Live /\ \A k \in Keys : ~Uses(a, k)
           /\ dirty' = [dirty EXCEPT ![call[g].key] = a]
           /\ p' = [p EXCEPT ![a] = call[g].val]
           /\ ent'[g] = NoEntries
<1> DEFINE a == CHOOSE x \in Entries : x \notin Live
<1>1. a \in Entries /\ a \notin Live
  BY FreshEntry DEF Inserts, Insert
<1>2. /\ dirty' = [dirty EXCEPT ![call[g].key] = a]
      /\ p' = [p EXCEPT ![a] = call[g].val]
      /\ ent'[g] = NoEntries
  BY DEF Inserts, Insert, SetP, Finish, Hold, IInv, EntriesConsistent, TypeOK
<1> HIDE DEF a
<1>3. dirty # nil
  BY SyncMapAssumption DEF Inserts, Entry0
<1>4. \A k \in Keys : ~Uses(a, k)
  BY <1>1, <1>3 DEF Live, Uses, Gone
<1>5. QED  BY <1>1, <1>2, <1>4

LEMMA InsertFate ==
  ASSUME IInv, NEW g \in Goroutines, Control(g), Inserts(g)
  PROVE  Fate(g)
<1> SUFFICES ASSUME NEW k \in Keys, NEW e \in Entries
             PROVE  Fate(g)!(k, e)
  BY DEF Fate
<1>1. PICK a \in Entries :
           /\ a \notin Live /\ \A j \in Keys : ~Uses(a, j)
           /\ dirty' = [dirty EXCEPT ![call[g].key] = a]
           /\ p' = [p EXCEPT ![a] = call[g].val]
           /\ ent'[g] = NoEntries
  BY InsertFacts
<1>2. /\ read' = read /\ dirty \in [Keys -> Entry0] /\ dirty # nil /\ dirty' # nil
      /\ call[g].key \in Keys /\ call[g].val \in Values /\ dirty[call[g].key] = None
      /\ e # None /\ (mu = None \/ mu = g)
  BY <1>1, SyncMapAssumption DEF Inserts, Entry0
<1>3. /\ dirty'[k] = IF k = call[g].key THEN a ELSE dirty[k]
      /\ p'[e] = IF e = a THEN call[g].val ELSE p[e]
  BY <1>1, <1>2 DEF IInv, EntriesConsistent, TypeOK
<1>4. \A h \in Goroutines : ent'[h][k] = e => ent[h][k] = e
  BY <1>1, <1>2 DEF Control, Apart, NoEntries
<1>5. /\ Gone(e, k) <=> read[k] # e /\ dirty[k] # e
      /\ Gone(e, k)' <=> read[k] # e /\ dirty'[k] # e
  BY <1>2 DEF Gone
<1>6. Uses(e, k)' => Uses(e, k) \/ (e = a /\ k = call[g].key)
  BY <1>3, <1>4, <1>5 DEF Uses
<1>7. Uses(e, k) => e # a
  BY <1>1
<1>8. Uses(e, k) /\ Gone(e, k) => Gone(e, k)' /\ p'[e] = p[e]
  BY <1>3, <1>5, <1>7
<1>9. Gone(e, k)' => Gone(e, k)
  BY <1>2, <1>3, <1>5
<1>10. read'[k] = None /\ Has(dirty, k)' /\ dirty'[k] = e =>
         \/ read[k] = None /\ Has(dirty, k) /\ dirty[k] = e /\ (p'[e] = p[e] \/ p'[e] \in Values)
         \/ e \notin Live /\ p'[e] \in Values
  BY <1>1, <1>2, <1>3 DEF Has
<1>11. QED  BY <1>1, <1>2, <1>4, <1>6, <1>8, <1>9, <1>10

LEMMA InsertMap ==
  ASSUME IInv, NEW g \in Goroutines, Control(g), Inserts(g)
  PROVE  MapFits'
<1>1. PICK a \in Entries :
           /\ a \notin Live /\ \A j \in Keys : ~Uses(a, j)
           /\ dirty' = [dirty EXCEPT ![call[g].key] = a]
           /\ p' = [p EXCEPT ![a] = call[g].val]
           /\ ent'[g] = NoEntries
  BY InsertFacts
<1>2. /\ read' = read /\ dirty \in [Keys -> Entry0] /\ dirty # nil /\ dirty' # nil
      /\ call[g].key \in Keys /\ call[g].val \in Values /\ read[call[g].key] = None /\ mu' = None
      /\ misses' = misses /\ amended' = TRUE
  BY <1>1, SyncMapAssumption DEF Inserts, Entry0
<1>3. \A k \in Keys : dirty'[k] = IF k = call[g].key THEN a ELSE dirty[k]
  BY <1>1, <1>2
<1>4. \A k \in Keys :
        /\ read[k] # None => p'[read[k]] = p[read[k]]
        /\ dirty[k] # None => p'[dirty[k]] = p[dirty[k]]
        /\ p'[a] # expunged
  BY <1>1, <1>2, SyncMapAssumption DEF IInv, EntriesConsistent, TypeOK, Uses, Gone, Entry0
<1>5. \A h \in Goroutines : pc'[h] # "expunge"
  BY <1>2, SyncMapAssumption DEF Control, CallsFit, CallFits
<1>6. \A k \in Keys :
         /\ read[k] # None => (p[read[k]] = expunged <=> dirty[k] # read[k])
         /\ dirty[k] # None => p[dirty[k]] # expunged /\ read[k] \in {None, dirty[k]}
  BY <1>2 DEF IInv, EntriesConsistent, Inserts, Has
<1>7. misses < Size(dirty')
  <2>1. Size(dirty') >= Size(dirty) /\ Size(dirty') >= 1 /\ Size(dirty) \in Nat /\ Size(dirty') \in Nat
    BY <1>1, <1>2, SizeGrows, SizeIsNat
  <2>2. misses \in Nat
    BY SyncMapAssumption, FS_CardinalityType DEF IInv, EntriesConsistent, TypeOK
  <2>3. misses = 0 \/ misses < Size(dirty)
    BY <1>2 DEF IInv, MissesFit, DirtyInTheMaking
  <2>4. QED  BY <2>1, <2>2, <2>3
<1>8. DirtyInTheMaking'
  BY <1>5 DEF DirtyInTheMaking
<1>9. MissesFit'
  BY <1>2, <1>7 DEF MissesFit, Size
<1>10. \A k \in Keys : read'[k] # None => (p'[read'[k]] = expunged <=> dirty' # nil /\ dirty'[k] # read'[k])
  BY <1>2, <1>3, <1>4, <1>6
<1>11. \A k \in Keys : Has(dirty, k)' => p'[dirty'[k]] # expunged /\ read'[k] \in {None, dirty'[k]}
  BY <1>2, <1>3, <1>4, <1>6 DEF Has
<1>12. EntriesConsistent'
  BY <1>2, <1>9, <1>10, <1>11 DEF EntriesConsistent, MissesFit, Control
<1>13. QED  BY <1>8, <1>9, <1>12 DEF MapFits

\* Who waits for mu finds that nobody holds it.
LEMMA NobodyLocks ==
  ASSUME IInv, mu = None
  PROVE  \A h \in Goroutines : pc[h] \notin {"locked", "expunge"}
BY SyncMapAssumption DEF IInv, CallsFit, CallFits

LEMMA StoreInReadStep ==
  ASSUME IInv, NEW g \in Goroutines, Control(g), StoreLocked(g), StoreInRead(g)
  PROVE  /\ Fate(g) /\ MapFits'
         /\ LET k == call[g].key IN ent'[g] = Only(k, read[k]) /\ p'[read[k]] # expunged /\ read' = read
<1> DEFINE key == call[g].key
           a == read[key]
<1>1. /\ mu = None /\ key \in Keys /\ a \in Entries /\ mu' = g /\ ent'[g] = Only(key, a)
      /\ read' = read /\ amended' = amended /\ misses' = misses /\ pc'[g] = "locked" /\ g # None
      /\ pc[g] = "lock"
  <2>1. key \in Keys /\ mu = None /\ pc[g] = "lock"
    BY StoreLockedWays, InCall DEF IInv, EntriesConsistent
  <2>2. a \in Entries
    BY <2>1 DEF StoreInRead, IInv, EntriesConsistent, TypeOK, Entry0
  <2>3. ent'[g] = Only(key, a) /\ pc'[g] = "locked"
    BY DEF StoreInRead, Hold, Goto, IInv, EntriesConsistent, TypeOK
  <2>4. QED  BY <2>1, <2>2, <2>3, SyncMapAssumption DEF StoreInRead
<1>2. \A h \in Goroutines : pc[h] # "expunge" /\ pc'[h] # "expunge"
  BY <1>1, NobodyLocks DEF Control, Apart
<1>3. \A k \in Keys : ent'[g][k] \in {None, read[k]}
  BY <1>1 DEF Only, NoEntries
<1>4. CASE p[a] # expunged
  <2>1. p' = p /\ dirty' = dirty
    BY <1>4 DEF StoreInRead, Unexpunge
  <2>2. Fate(g)
    BY <1>1, <1>3, <2>1, QuietFate
  <2>3. MapFits'
    BY <1>1, <2>1, QuietMap
  <2>4. QED  BY <1>1, <1>4, <2>1, <2>2, <2>3
<1>5. CASE p[a] = expunged
  <2>1. p' = [p EXCEPT ![a] = nil] /\ dirty' = [dirty EXCEPT ![key] = a]
    BY <1>5 DEF StoreInRead, Unexpunge, SetP
  <2>2. dirty # nil /\ dirty[key] # a
    BY <1>1, <1>2, <1>5, SyncMapAssumption DEF IInv, EntriesConsistent
  <2>3. dirty \in [Keys -> Entry0] /\ dirty' \in [Keys -> Entry0] /\ dirty' # nil
    BY <1>1, <2>1, <2>2, SyncMapAssumption DEF IInv, EntriesConsistent, TypeOK, Entry0
  <2>4. dirty[key] = None
    BY <1>1, <2>2, <2>3, SyncMapAssumption DEF IInv, EntriesConsistent, Has
  <2>5. \A k \in Keys : dirty'[k] = IF k = key THEN a ELSE dirty[k]
    BY <2>1, <2>3
  <2>6. \A e \in Entries : p'[e] = IF e = a THEN nil ELSE p[e]
    BY <2>1 DEF IInv, EntriesConsistent, TypeOK
  <2>7. \A k \in Keys : (read[k] = a \/ dirty[k] = a) => k = key
    BY <1>1, <2>2 DEF IInv, OneKey, Uses, Gone
  <2>8. Fate(g)
    <3> SUFFICES ASSUME NEW k \in Keys, NEW e \in Entries
                 PROVE  Fate(g)!(k, e)
      BY DEF Fate
    <3>1. \A h \in Goroutines : ent'[h][k] = e /\ ent[h][k] # e => h = g /\ read[k] = e
      BY <1>3, SyncMapAssumption DEF Control, Apart
    <3>2. Gone(e, k)' <=> Gone(e, k)
      BY <1>1, <2>2, <2>3, <2>4, <2>5, SyncMapAssumption DEF Gone
    <3>3. Uses(e, k)' => Uses(e, k)
      BY <3>1, <3>2 DEF Uses, Gone
    <3>4. Uses(e, k) /\ Gone(e, k) => p'[e] = p[e]
      <4>1. CASE e = a
        <5>1. Uses(a, key) /\ ~Gone(a, key)
          BY DEF Uses, Gone
        <5>2. Uses(e, k) => k = key
          BY <1>1, <4>1, <5>1 DEF IInv, OneKey
        <5>3. QED  BY <4>1, <5>1, <5>2
      <4>2. QED  BY <2>6, <4>1
    <3>5. read'[k] = None /\ Has(dirty, k)' /\ dirty'[k] = e =>
            read[k] = None /\ Has(dirty, k) /\ dirty[k] = e /\ p'[e] = p[e]
      BY <1>1, <2>2, <2>5, <2>6, <2>7, SyncMapAssumption DEF Has
    <3>6. QED  BY <1>1, <3>1, <3>2, <3>3, <3>4, <3>5
  <2>9. \A k \in Keys :
          /\ read[k] # None => (p[read[k]] = expunged <=> dirty[k] # read[k])
          /\ dirty[k] # None => p[dirty[k]] # expunged /\ read[k] \in {None, dirty[k]}
          /\ read[k] \in Entry0 /\ dirty[k] \in Entry0
    BY <1>2, <2>2, <2>3 DEF IInv, EntriesConsistent, Has, TypeOK
  <2>10. \A k \in Keys : read'[k] # None => (p'[read'[k]] = expunged <=> dirty' # nil /\ dirty'[k] # read'[k])
    BY <1>1, <2>3, <2>5, <2>6, <2>7, <2>9, SyncMapAssumption DEF Entry0
  <2>11. \A k \in Keys : Has(dirty, k)' => p'[dirty'[k]] # expunged /\ read'[k] \in {None, dirty'[k]}
    BY <1>1, <2>3, <2>5, <2>6, <2>7, <2>9, SyncMapAssumption DEF Entry0, Has
  <2>12. amended /\ amended' /\ misses' < Size(dirty')
    <3>1. Size(dirty') >= Size(dirty) /\ Size(dirty) \in Nat /\ Size(dirty') \in Nat
      BY <1>1, <2>1, <2>3, SizeGrows, SizeIsNat
    <3>2. amended /\ misses < Size(dirty) /\ misses \in Nat
      BY <1>2, <2>2, SyncMapAssumption, FS_CardinalityType DEF IInv, MissesFit, EntriesConsistent, TypeOK
    <3>3. QED  BY <1>1, <3>1, <3>2
  <2>13. DirtyInTheMaking' /\ MissesFit'
    BY <1>1, <1>2, <2>3, <2>12 DEF DirtyInTheMaking, MissesFit, Size
  <2>14. EntriesConsistent'
    BY <1>1, <2>3, <2>10, <2>11, <2>12 DEF EntriesConsistent, Control
  <2>15. p'[a] # expunged
    BY <1>1, <2>6, SyncMapAssumption
  <2>16. QED  BY <1>1, <2>8, <2>13, <2>14, <2>15 DEF MapFits
<1>6. QED  BY <1>4, <1>5

LEMMA MakeDirtyStep ==
  ASSUME IInv, NEW g \in Goroutines, Control(g), StoreLocked(g), MakeDirty(g)
  PROVE  Fate(g) /\ MapFits'
<1>1. /\ mu = None /\ call[g].key \in Keys /\ read[call[g].key] = None /\ mu' = g
      /\ read' = read /\ amended' = amended /\ ~amended /\ misses' = misses /\ p' = p
      /\ pc'[g] = "expunge" /\ g # None
  <2>1. call[g].key \in Keys /\ mu = None
    BY StoreLockedWays, InCall DEF IInv, EntriesConsistent
  <2>2. QED  BY <2>1, SyncMapAssumption DEF MakeDirty, Goto, IInv, EntriesConsistent, TypeOK
<1>2. dirty = nil
  BY <1>1, NobodyLocks DEF IInv, MissesFit
<1>3. dirty' = NoEntries /\ ent'[g] = read
  BY <1>2 DEF MakeDirty, Hold, IInv, EntriesConsistent, TypeOK
<1>4. dirty' # nil /\ \A k \in Keys : dirty'[k] = None
  BY <1>3, SyncMapAssumption DEF NoEntries, Entry0
<1>5. Fate(g)
  <2> SUFFICES ASSUME NEW k \in Keys, NEW e \in Entries
               PROVE  Fate(g)!(k, e)
    BY DEF Fate
  <2>1. \A h \in Goroutines : ent'[h][k] = e /\ ent[h][k] # e => h = g /\ read[k] = e
    BY <1>3, SyncMapAssumption DEF Control, Apart
  <2>2. Gone(e, k)' <=> Gone(e, k)
    BY <1>1, <1>2, <1>4, SyncMapAssumption DEF Gone
  <2>3. Uses(e, k)' => Uses(e, k)
    BY <2>1, <2>2 DEF Uses, Gone
  <2>4. ~Has(dirty, k)'
    BY <1>4 DEF Has
  <2>5. QED  BY <1>1, <2>1, <2>2, <2>3, <2>4
<1>6. DirtyInTheMaking'
  <2>1. \A h \in Goroutines : pc'[h] = "expunge" => h = g
    BY <1>1 DEF Control, CallsFit, CallFits
  <2>2. call'[g] = call[g] /\ misses = 0
    BY <1>2, StoreLockedWays DEF IInv, MissesFit
  <2>3. QED  BY <1>1, <1>3, <1>4, <2>1, <2>2 DEF DirtyInTheMaking
<1>7. MissesFit'
  BY <1>1, <1>4 DEF MissesFit
<1>8. EntriesConsistent'
  BY <1>1, <1>3, <1>4 DEF EntriesConsistent, Control, Has
<1>9. QED  BY <1>5, <1>6, <1>7, <1>8 DEF MapFits

LEMMA ExpungeStep ==
  ASSUME IInv, NEW g \in Goroutines, Control(g), Expunge(g)
  PROVE  Fate(g) /\ MapFits'
<1>1. PICK j \in Keys :
        LET e == ent[g][j] IN
          /\ e # None
          /\ IF p[e] = nil THEN SetP(e, expunged) ELSE UNCHANGED p
          /\ dirty' = IF p[e] \in Values THEN [dirty EXCEPT ![j] = e] ELSE dirty
          /\ Hold(g, [ent[g] EXCEPT ![j] = None])
  BY DEF Expunge
<1> DEFINE a == read[j]
<1>2. /\ pc[g] = "expunge" /\ pc'[g] = "expunge" /\ mu = g /\ mu' = g /\ g # None
      /\ UNCHANGED <<read, amended, misses, call>>
  BY SyncMapAssumption DEF Expunge, IInv, CallsFit, CallFits
<1>3. /\ ~amended /\ dirty # nil /\ dirty \in [Keys -> Entry0] /\ misses = 0
      /\ \A k \in Keys : /\ ent[g][k] \in {None, read[k]} /\ dirty[k] \in {None, read[k]}
                         /\ ent[g][k] # None => dirty[k] = None
  BY <1>2 DEF IInv, DirtyInTheMaking, EntriesConsistent, TypeOK
<1>4. ent[g][j] = a /\ a \in Entries /\ dirty[j] = None
  BY <1>1, <1>3 DEF IInv, EntriesConsistent, TypeOK, Entry0
<1>5. \A k \in Keys : ent'[g][k] = IF k = j THEN None ELSE ent[g][k]
  BY <1>1 DEF Hold, IInv, EntriesConsistent, TypeOK
<1>6. \A k \in Keys : dirty'[k] = IF k = j /\ p[a] \in Values THEN a ELSE dirty[k]
  BY <1>1, <1>3, <1>4
<1>7. dirty' \in [Keys -> Entry0] /\ dirty' # nil
  BY <1>1, <1>3, <1>4, SyncMapAssumption DEF Entry0
<1>8. \A e \in Entries : p'[e] = IF e = a /\ p[a] = nil THEN expunged ELSE p[e]
  BY <1>1, <1>4 DEF SetP, IInv, EntriesConsistent, TypeOK
<1>9. \A k \in Keys : (read[k] = a \/ dirty[k] = a) => k = j
  BY <1>3, <1>4 DEF IInv, OneKey, Uses, Gone
<1>10. Fate(g)
  <2> SUFFICES ASSUME NEW k \in Keys, NEW e \in Entries
               PROVE  Fate(g)!(k, e)
    BY DEF Fate
  <2>1. \A h \in Goroutines : ent'[h][k] = e => ent[h][k] = e
    BY <1>5, SyncMapAssumption DEF Control, Apart
  <2>2. Gone(e, k)' <=> Gone(e, k)
    BY <1>2, <1>3, <1>4, <1>6, <1>7, SyncMapAssumption DEF Gone
  <2>3. Uses(e, k)' => Uses(e, k)
    BY <2>1, <2>2 DEF Uses
  <2>4. Uses(e, k) /\ Gone(e, k) => p'[e] = p[e]
    <3>1. CASE e = a
      <4>1. Uses(a, j) /\ ~Gone(a, j)
        BY DEF Uses, Gone
      <4>2. Uses(e, k) => k = j
        BY <1>4, <3>1, <4>1 DEF IInv, OneKey
      <4>3. QED  BY <3>1, <4>1, <4>2
    <3>2. QED  BY <1>8, <3>1
  <2>5. read'[k] = None /\ Has(dirty, k)' => FALSE
    BY <1>2, <1>3, <1>4, <1>6, SyncMapAssumption DEF Has
  <2>6. QED  BY <1>2, <2>1, <2>2, <2>3, <2>4, <2>5
<1>11. DirtyInTheMaking'
  <2>1. \A h \in Goroutines : pc'[h] = "expunge" => h = g
    BY <1>2 DEF Control, CallsFit, CallFits
  <2>2. read[call[g].key] = None
    BY <1>2 DEF IInv, DirtyInTheMaking
  <2>3. QED  BY <1>2, <1>3, <1>4, <1>5, <1>6, <1>7, <2>1, <2>2 DEF DirtyInTheMaking
<1>12. MissesFit'
  BY <1>2, <1>3, <1>7 DEF MissesFit
<1>13. ASSUME NEW k \in Keys, read'[k] # None, ~(\E h \in Goroutines : pc'[h] = "expunge" /\ ent'[h][k] # None)
       PROVE  p'[read'[k]] = expunged <=> dirty' # nil /\ dirty'[k] # read'[k]
  <2>1. CASE k = j
    BY <1>2, <1>4, <1>6, <1>7, <1>8, <2>1, SyncMapAssumption, <1>3 DEF IInv, EntriesConsistent, TypeOK
  <2>2. CASE k # j
    <3>1. read[k] \in Entries /\ read[k] # a
      BY <1>2, <1>9, <1>13, <2>2 DEF IInv, EntriesConsistent, TypeOK, Entry0
    <3>2. p'[read[k]] = p[read[k]] /\ dirty'[k] = dirty[k]
      BY <1>6, <1>8, <2>2, <3>1
    <3>3. ~(\E h \in Goroutines : pc[h] = "expunge" /\ ent[h][k] # None)
      BY <1>2, <1>5, <1>13, <2>2 DEF IInv, CallsFit, CallFits
    <3>4. QED  BY <1>2, <1>3, <1>7, <1>13, <3>2, <3>3 DEF IInv, EntriesConsistent
  <2>3. QED  BY <2>1, <2>2
<1>14. ASSUME NEW k \in Keys, Has(dirty, k)'
       PROVE  p'[dirty'[k]] # expunged /\ read'[k] \in {None, dirty'[k]}
  <2>1. CASE k = j
    BY <1>2, <1>4, <1>6, <1>8, <1>14, <2>1, SyncMapAssumption DEF Has
  <2>2. CASE k # j
    <3>1. dirty'[k] = dirty[k] /\ Has(dirty, k)
      BY <1>3, <1>6, <1>14, <2>2 DEF Has
    <3>2. dirty[k] \in Entries /\ dirty[k] # a
      BY <1>3, <1>9, <2>2, <3>1 DEF Has, Entry0
    <3>3. QED  BY <1>2, <1>8, <3>1, <3>2 DEF IInv, EntriesConsistent
  <2>3. QED  BY <2>1, <2>2
<1>15. EntriesConsistent'
  BY <1>2, <1>13, <1>14 DEF EntriesConsistent, Control
<1>16. QED  BY <1>10, <1>11, <1>12, <1>15 DEF MapFits

\* What AccessEntry and FillLocked do to the entry of their goroutine.
LEMMA AccessEntryDoes ==
  ASSUME IInv, NEW g \in Goroutines, AccessEntry(g)
  PROVE  /\ pc[g] = "entry" /\ call[g].key \in Keys /\ ent[g][call[g].key] \in Entries
         /\ call[g].op \in {"Load", "LoadAndDelete", "Store", "LoadOrStore"}
         /\ UNCHANGED <<read, amended, dirty, misses, mu, call>>
         /\ ent'[g] = NoEntries /\ pc'[g] \in {"lock", "done"}
         /\ LET e == ent[g][call[g].key] IN
              \/ p' = p
              \/ call[g].op = "LoadAndDelete" /\ p[e] \in Values /\ Writes(g, e, nil)
              \/ /\ call[g].op \in {"Store", "LoadOrStore"} /\ Writes(g, e, call[g].val)
                 /\ call[g].op = "LoadOrStore" => p[e] \notin Values
<1> DEFINE e == ent[g][call[g].key]
<1>1. /\ pc[g] = "entry" /\ call[g] # None /\ call[g].op # "Range"
      /\ call[g].key \in Keys /\ call[g].op \in Ops /\ e \in Entries /\ call[g].val \in Values
  BY InCall DEF AccessEntry, IInv, EntriesConsistent
<1>2. UNCHANGED <<read, amended, dirty, misses, mu, call>>
  BY DEF AccessEntry
<1>3. \A x \in Values : x # expunged
  BY SyncMapAssumption
<1>4. ASSUME NEW r, Finish(g, r)
      PROVE  ent'[g] = NoEntries /\ pc'[g] = "done"
  BY <1>4 DEF Finish, Hold, Goto, IInv, EntriesConsistent, TypeOK
<1>5. CASE call[g].op = "Load"
  BY <1>1, <1>2, <1>4, <1>5 DEF AccessEntry
<1>6. CASE call[g].op = "LoadAndDelete"
  <2>1. Delete(g, e)
    BY <1>6 DEF AccessEntry
  <2>2. ent'[g] = NoEntries /\ pc'[g] = "done"
    BY <1>4, <2>1 DEF Delete
  <2>3. (p[e] \in Values /\ p' = [p EXCEPT ![e] = nil]) \/ p' = p
    BY <2>1 DEF Delete, SetP
  <2>4. QED  BY <1>1, <1>2, <1>3, <1>6, <2>2, <2>3 DEF Writes
<1>7. CASE call[g].op \in {"Store", "LoadOrStore"}
  <2>1. TryStore(g, e)
    BY <1>7 DEF AccessEntry
  <2>2. CASE p[e] = expunged
    BY <1>1, <1>2, <1>7, <2>1, <2>2 DEF TryStore, Hold, Goto, IInv, EntriesConsistent, TypeOK
  <2>3. CASE p[e] # expunged
    <3>1. Fill(g, e)
      BY <2>1, <2>3 DEF TryStore
    <3>2. ent'[g] = NoEntries /\ pc'[g] = "done"
      BY <1>4, <3>1 DEF Fill
    <3>3. p' = p \/ (p' = [p EXCEPT ![e] = call[g].val] /\ (call[g].op = "LoadOrStore" => p[e] \notin Values))
      BY <3>1 DEF Fill, SetP
    <3>4. QED  BY <1>1, <1>2, <1>7, <2>3, <3>2, <3>3 DEF Writes
  <2>4. QED  BY <2>2, <2>3
<1>8. QED  BY <1>1, <1>5, <1>6, <1>7 DEF Ops

\* A Store that fills an entry of the maps.
LEMMA FillDoes ==
  ASSUME IInv, NEW g \in Goroutines, call[g] # None, call[g].op # "Range", NEW e \in Entries, Fill(g, e),
         p[e] # expunged, ~Gone(e, call[g].key)
  PROVE  /\ ent'[g] = NoEntries /\ pc'[g] = "done"
         /\ \/ p' = p
            \/ /\ p' = [p EXCEPT ![e] = call[g].val] /\ (call[g].op = "LoadOrStore" => p[e] \notin Values)
               /\ UNCHANGED <<read, amended, dirty>> => Writes(g, e, call[g].val)
<1>1. call[g].key \in Keys /\ call[g].val \in Values
  BY CallTypes DEF IInv, EntriesConsistent
<1>2. ASSUME NEW r, Finish(g, r)
      PROVE  ent'[g] = NoEntries /\ pc'[g] = "done"
  BY <1>2 DEF Finish, Hold, Goto, IInv, EntriesConsistent, TypeOK
<1>3. p' = p \/ (p' = [p EXCEPT ![e] = call[g].val] /\ (call[g].op = "LoadOrStore" => p[e] \notin Values))
  BY DEF Fill, SetP
<1>4. ent'[g] = NoEntries /\ pc'[g] = "done"
  BY <1>2 DEF Fill
<1>5. QED  BY <1>1, <1>3, <1>4 DEF Writes

\* What is written is not what says that an entry is expunged.
LEMMA WriteIsNoExpunge ==
  ASSUME IInv, NEW g, NEW e \in Entries, NEW v, Writes(g, e, v)
  PROVE  \A x \in Entries : p'[x] = expunged <=> p[x] = expunged
BY SyncMapAssumption DEF Writes, IInv, EntriesConsistent, TypeOK

LEMMA AccessEntryMaps ==
  ASSUME IInv, NEW g \in Goroutines, Control(g), AccessEntry(g)
  PROVE  Fate(g) /\ MapFits'
<1> DEFINE e == ent[g][call[g].key]
<1>1. /\ pc[g] = "entry" /\ e \in Entries /\ UNCHANGED <<read, amended, dirty, misses>>
      /\ ent'[g] = NoEntries /\ pc'[g] \in {"lock", "done"}
  BY AccessEntryDoes
<1>2. CASE p' = p
  BY <1>1, <1>2, QuietFate, QuietMap DEF NoEntries
<1>3. CASE \E v \in {nil, call[g].val} : Writes(g, e, v)
  <2>1. PICK v \in {nil, call[g].val} : Writes(g, e, v)
    BY <1>3
  <2>2. \A x \in Entries : p'[x] = expunged <=> p[x] = expunged
    BY <1>1, <2>1, WriteIsNoExpunge
  <2>3. QED  BY <1>1, <2>1, <2>2, WriteFate, QuietMap
<1>4. QED  BY <1>2, <1>3, AccessEntryDoes

LEMMA FillLockedDoes ==
  ASSUME IInv, NEW g \in Goroutines, FillLocked(g)
  PROVE  LET e == ent[g][call[g].key] IN
         /\ e \in Entries /\ e = read[call[g].key] /\ p[e] # expunged /\ Fill(g, e)
         /\ pc[g] = "locked" /\ UNCHANGED <<read, amended, dirty, misses, call>>
         /\ ent'[g] = NoEntries /\ pc'[g] = "done"
         /\ p' = p \/ (Writes(g, e, call[g].val) /\ (call[g].op = "LoadOrStore" => p[e] \notin Values))
<1> DEFINE e == ent[g][call[g].key]
<1>1. /\ pc[g] = "locked" /\ call[g] # None /\ call[g].op # "Range" /\ call[g].key \in Keys /\ e \in Entries
  BY InCall DEF FillLocked, IInv, EntriesConsistent
<1>2. e = read[call[g].key] /\ p[e] # expunged
  BY <1>1, SyncMapAssumption DEF IInv, HoldersFit
<1>3. Fill(g, e) /\ UNCHANGED <<read, amended, dirty, misses, call>>
  BY DEF FillLocked
<1>4. ~Gone(e, call[g].key)
  BY <1>2 DEF Gone
<1>5. QED  BY <1>1, <1>2, <1>3, <1>4, FillDoes

LEMMA FillLockedMaps ==
  ASSUME IInv, NEW g \in Goroutines, Control(g), FillLocked(g)
  PROVE  Fate(g) /\ MapFits'
<1> DEFINE e == ent[g][call[g].key]
<1>1. /\ pc[g] = "locked" /\ e \in Entries /\ UNCHANGED <<read, amended, dirty, misses>>
      /\ ent'[g] = NoEntries /\ pc'[g] = "done"
  BY FillLockedDoes
<1>2. CASE p' = p
  BY <1>1, <1>2, QuietFate, QuietMap DEF NoEntries
<1>3. CASE Writes(g, e, call[g].val)
  <2>1. \A x \in Entries : p'[x] = expunged <=> p[x] = expunged
    BY <1>1, <1>3, WriteIsNoExpunge
  <2>2. QED  BY <1>1, <1>3, <2>1, WriteFate, QuietMap
<1>4. QED  BY <1>2, <1>3, FillLockedDoes

\* What LoadLocked finds, and what it leaves of the dirty map.
Dropped(g) ==
  IF call[g].op = "LoadAndDelete" THEN [dirty EXCEPT ![call[g].key] = None] ELSE dirty

LEMMA LoadLockedDoes ==
  ASSUME IInv, NEW g \in Goroutines, LoadLocked(g)
  PROVE  LET k == call[g].key
             missed == read[k] = None /\ amended
             e == IF missed THEN dirty[k] ELSE read[k]
         IN /\ pc[g] = "lock" /\ mu = None /\ k \in Keys /\ e \in Entry0
            /\ call[g].op \in {"Load", "LoadAndDelete"} /\ UNCHANGED <<p, mu, call>>
            /\ ent'[g] = Only(k, e) /\ pc'[g] \in {"entry", "done"} /\ (e # None => pc'[g] = "entry")
            /\ missed => Misses(g, Dropped(g)) /\ MissLocked(Dropped(g))
            /\ ~missed => UNCHANGED <<read, amended, dirty, misses>>
            /\ IF e = None THEN Finish(g, Found(None)) ELSE out' = out
<1> DEFINE k == call[g].key
           missed == read[k] = None /\ amended
           e == IF missed THEN dirty[k] ELSE read[k]
<1> TypeOK
  BY DEF IInv, EntriesConsistent
<1>1. /\ pc[g] = "lock" /\ mu = None /\ k \in Keys
      /\ call[g].op \in {"Load", "LoadAndDelete"} /\ UNCHANGED <<p, mu, call>>
  BY InCall DEF LoadLocked, IInv
<1>2. missed => dirty # nil /\ dirty \in [Keys -> Entry0]
  BY DEF IInv, MissesFit, TypeOK
<1>3. e \in Entry0
  BY <1>1, <1>2 DEF TypeOK
<1>4. missed => MissLocked(Dropped(g)) /\ Dropped(g) \in [Keys -> Entry0]
  BY <1>2 DEF LoadLocked, Dropped, Entry0
<1>5. ~missed => UNCHANGED <<read, amended, dirty, misses>>
  BY DEF LoadLocked
<1>6. ent'[g] = Only(k, e) /\ pc'[g] \in {"entry", "done"} /\ (e # None => pc'[g] = "entry")
  <2>1. CASE e = None
    <3>1. Finish(g, Found(None)) /\ Only(k, e) = NoEntries
      BY <2>1 DEF LoadLocked, Only, NoEntries
    <3>2. QED  BY <2>1, <3>1 DEF Finish, Hold, Goto, TypeOK
  <2>2. CASE e # None
    <3>1. Hold(g, Only(k, e)) /\ Goto(g, "entry")
      BY <2>2 DEF LoadLocked
    <3>2. QED  BY <3>1 DEF Hold, Goto, TypeOK
  <2>3. QED  BY <2>1, <2>2
<1>7. IF e = None THEN Finish(g, Found(None)) ELSE out' = out
  BY DEF LoadLocked
<1> HIDE DEF e
<1>8. ASSUME missed
      PROVE  Misses(g, Dropped(g))
  <2>1. \A j \in Keys : ent'[g][j] = IF j = k THEN e ELSE None
    BY <1>1, <1>6 DEF Only, NoEntries
  <2>2. e = dirty[k] /\ read[k] = None /\ amended
    BY <1>8 DEF e
  <2>3. \/ Dropped(g) = dirty /\ call[g].op = "Load"
        \/ /\ call[g].op = "LoadAndDelete" /\ Dropped(g) = [dirty EXCEPT ![k] = None]
           /\ Dropped(g)[k] = None
    BY <1>1, <1>2, <1>8 DEF Dropped
  <2>4. QED  BY <1>1, <1>4, <1>8, <2>1, <2>2, <2>3 DEF Misses
<1>9. QED  BY <1>1, <1>3, <1>4, <1>5, <1>6, <1>7, <1>8 DEF e

LEMMA LoadLockedMaps ==
  ASSUME IInv, NEW g \in Goroutines, Control(g), LoadLocked(g)
  PROVE  Fate(g) /\ MapFits'
<1> DEFINE k == call[g].key
<1>1. CASE read[k] = None /\ amended
  BY <1>1, LoadLockedDoes, MissFate, MissMap
<1>2. CASE ~(read[k] = None /\ amended)
  <2>1. /\ UNCHANGED <<read, amended, dirty, misses, p>> /\ pc[g] = "lock" /\ pc'[g] \in {"entry", "done"}
        /\ ent'[g] = Only(k, read[k])
    BY <1>2, LoadLockedDoes
  <2>2. \A j \in Keys : ent'[g][j] \in {None, read[j]}
    BY <2>1 DEF Only, NoEntries
  <2>3. QED  BY <2>1, <2>2, QuietFate, QuietMap
<1>3. QED  BY <1>1, <1>2

LEMMA StoreInDirtyDoes ==
  ASSUME IInv, NEW g \in Goroutines, StoreLocked(g), StoreInDirty(g)
  PROVE  LET k == call[g].key
             e == dirty[k]
         IN /\ k \in Keys /\ read[k] = None /\ Has(dirty, k) /\ e \in Entries /\ p[e] \in Values
            /\ pc[g] = "lock" /\ mu = None /\ UNCHANGED <<mu, call>> /\ amended
            /\ ent'[g] = NoEntries /\ pc'[g] = "done" /\ Fill(g, e)
            /\ \/ p' = p /\ call[g].op = "LoadOrStore" /\ Misses(g, dirty)
               \/ /\ call[g].op = "Store" /\ Writes(g, e, call[g].val)
                  /\ UNCHANGED <<read, amended, dirty, misses>>
<1> DEFINE k == call[g].key
           e == dirty[k]
<1> TypeOK
  BY DEF IInv, EntriesConsistent
<1>1. /\ pc[g] = "lock" /\ mu = None /\ k \in Keys /\ call[g] # None
      /\ call[g].op \in {"Store", "LoadOrStore"} /\ call' = call /\ mu' = mu
  BY StoreLockedWays, InCall DEF StoreInDirty, IInv
<1>2. read[k] = None /\ Has(dirty, k) /\ Fill(g, e)
  BY DEF StoreInDirty
<1>3. e \in Entries /\ p[e] \in Values /\ dirty \in [Keys -> Entry0] /\ ~Gone(e, k)
  BY <1>1, <1>2 DEF IInv, DirtyHasValues, Has, TypeOK, Entry0, Gone
<1>4. p[e] # expunged
  BY <1>3, SyncMapAssumption
<1>5. amended
  BY <1>1, <1>2, NobodyLocks DEF IInv, MissesFit, Has
<1>6. ent'[g] = NoEntries /\ pc'[g] = "done"
  BY <1>1, <1>2, <1>3, <1>4, FillDoes
<1>7. CASE call[g].op = "LoadOrStore"
  <2>1. p' = p /\ MissLocked(dirty)
    BY <1>2, <1>3, <1>7 DEF StoreInDirty, Fill
  <2>2. Misses(g, dirty)
    BY <1>1, <1>3, <1>5, <1>6, <2>1 DEF Misses, NoEntries
  <2>3. QED  BY <1>1, <1>2, <1>3, <1>5, <1>6, <1>7, <2>1, <2>2
<1>8. CASE call[g].op = "Store"
  <2>1. UNCHANGED <<read, amended, dirty, misses>>
    BY <1>8 DEF StoreInDirty
  <2>2. p' = [p EXCEPT ![e] = call[g].val] /\ call[g].val \in Values
    BY <1>1, <1>2, <1>8, CallTypes DEF Fill, SetP
  <2>3. Writes(g, e, call[g].val)
    BY <1>1, <1>3, <1>4, <1>6, <2>1, <2>2 DEF Writes
  <2>4. QED  BY <1>1, <1>2, <1>3, <1>5, <1>6, <1>8, <2>1, <2>3
<1>9. QED  BY <1>1, <1>7, <1>8

LEMMA NewKeyInserts ==
  ASSUME IInv, NEW g \in Goroutines, (StoreLocked(g) /\ StoreNew(g)) \/ Publish(g)
  PROVE  /\ Inserts(g) /\ Finish(g, <<call[g].val, FALSE>>) /\ call' = call
         /\ call[g].op \in {"Store", "LoadOrStore"} /\ pc[g] \in {"lock", "expunge"}
<1> TypeOK
  BY DEF IInv, EntriesConsistent
<1>1. CASE StoreLocked(g) /\ StoreNew(g)
  <2>1. /\ pc[g] = "lock" /\ mu = None /\ call[g].key \in Keys /\ call[g].val \in Values
        /\ call[g].op \in {"Store", "LoadOrStore"} /\ call' = call
    BY <1>1, StoreLockedWays, InCall DEF IInv
  <2>2. dirty # nil /\ dirty \in [Keys -> Entry0] /\ dirty[call[g].key] = None
    BY <1>1 DEF StoreNew, Has, IInv, MissesFit, TypeOK
  <2>3. \A h \in Goroutines : pc[h] # "expunge"
    BY <2>1, NobodyLocks
  <2>4. QED  BY <1>1, <2>1, <2>2, <2>3 DEF StoreNew, Inserts, Insert
<1>2. CASE Publish(g)
  <2>1. /\ pc[g] = "expunge" /\ mu = g /\ call[g].key \in Keys /\ call[g].val \in Values
        /\ call[g].op \in {"Store", "LoadOrStore"} /\ call' = call
    BY <1>2, InCall DEF Publish, IInv
  <2>2. /\ dirty # nil /\ dirty \in [Keys -> Entry0] /\ dirty[call[g].key] = None
        /\ read[call[g].key] = None
    BY <2>1 DEF IInv, DirtyInTheMaking, TypeOK
  <2>3. \A h \in Goroutines, k \in Keys : pc[h] = "expunge" => ent[h][k] = None
    BY <1>2, <2>1 DEF Publish, IInv, CallsFit, CallFits, NoEntries
  <2>4. QED  BY <1>2, <2>1, <2>2, <2>3 DEF Publish, Inserts, Insert
<1>3. QED  BY <1>1, <1>2

LEMMA StoreLockedMaps ==
  ASSUME IInv, NEW g \in Goroutines, Control(g), StoreLocked(g)
  PROVE  Fate(g) /\ MapFits'
<1>1. CASE StoreInDirty(g)
  <2> DEFINE e == dirty[call[g].key]
  <2>1. CASE Misses(g, dirty)
    BY <2>1, MissFate, MissMap
  <2>2. CASE Writes(g, e, call[g].val) /\ UNCHANGED <<read, amended, dirty, misses>>
    <3>1. e \in Entries /\ pc[g] = "lock" /\ pc'[g] = "done"
      BY <1>1, StoreInDirtyDoes
    <3>2. \A x \in Entries : p'[x] = expunged <=> p[x] = expunged
      BY <2>2, <3>1, WriteIsNoExpunge
    <3>3. QED  BY <2>2, <3>1, <3>2, WriteFate, QuietMap
  <2>3. QED  BY <1>1, <2>1, <2>2, StoreInDirtyDoes
<1>2. CASE StoreNew(g)
  BY <1>2, NewKeyInserts, InsertFate, InsertMap
<1>3. QED  BY <1>1, <1>2, StoreLockedWays, StoreInReadStep, MakeDirtyStep

LEMMA PublishMaps ==
  ASSUME IInv, NEW g \in Goroutines, Control(g), Publish(g)
  PROVE  Fate(g) /\ MapFits'
BY NewKeyInserts, InsertFate, InsertMap

\* The steps that leave the maps alone.
LEMMA QuietSteps ==
  ASSUME IInv, NEW g \in Goroutines,
         Begin(g) \/ Return(g) \/ LoadRead(g) \/ RangeRead(g) \/ RangeEntry(g)
  PROVE  /\ UNCHANGED map /\ mu' = mu
         /\ \A k \in Keys : ent'[g][k] \in {None, ent[g][k], read[k]}
         /\ pc[g] \notin {"locked", "expunge"} /\ pc'[g] \notin {"locked", "expunge"}
<1> TypeOK
  BY DEF IInv, EntriesConsistent
<1>1. CASE Begin(g) \/ Return(g)
  BY <1>1 DEF Begin, Return, Goto, TypeOK
<1>2. CASE LoadRead(g)
  <2>1. ASSUME Finish(g, Found(None))
        PROVE  ent'[g] = NoEntries /\ pc'[g] = "done"
    BY <2>1 DEF Finish, Hold, Goto, TypeOK
  <2>2. ASSUME Hold(g, Only(call[g].key, read[call[g].key])), Goto(g, "entry")
        PROVE  pc'[g] = "entry" /\ \A k \in Keys : ent'[g][k] \in {None, read[k]}
    BY <2>2 DEF Hold, Goto, TypeOK, Only, NoEntries
  <2>3. ASSUME Goto(g, "lock"), ent' = ent
        PROVE  pc'[g] = "lock" /\ ent'[g] = ent[g]
    BY <2>3 DEF Goto, TypeOK
  <2>4. pc[g] = "read" /\ UNCHANGED <<map, mu>>
    BY <1>2 DEF LoadRead
  <2>5. QED  BY <1>2, <2>1, <2>2, <2>3, <2>4 DEF LoadRead, NoEntries
<1>3. CASE RangeRead(g)
  BY <1>3 DEF RangeRead, Visit, Hold, Goto, TypeOK
<1>4. CASE RangeEntry(g)
  BY <1>4 DEF RangeEntry, Hold, Goto, TypeOK
<1>5. QED  BY <1>1, <1>2, <1>3, <1>4

LEMMA QuietMaps ==
  ASSUME IInv, NEW g \in Goroutines, Control(g),
         Begin(g) \/ Return(g) \/ LoadRead(g) \/ RangeRead(g) \/ RangeEntry(g)
  PROVE  Fate(g) /\ MapFits'
BY QuietSteps, QuietFate, QuietMap DEF map

\* Range takes all of the entries of m.read, when it has promoted the dirty map.
LEMMA RangeLockedDoes ==
  ASSUME IInv, NEW g \in Goroutines, RangeLocked(g)
  PROVE  /\ pc[g] = "lock" /\ mu = None /\ UNCHANGED <<p, mu, call>>
         /\ ent'[g] = read' /\ pc'[g] \in {"entry", "done"}
         /\ amended => Misses(g, dirty)
         /\ ~amended => UNCHANGED <<read, amended, dirty, misses>>
<1> TypeOK
  BY DEF IInv, EntriesConsistent
<1>1. pc[g] = "lock" /\ mu = None /\ UNCHANGED <<p, mu, call>> /\ Visit(g, read')
  BY DEF RangeLocked
<1>2. ent'[g] = read' /\ pc'[g] \in {"entry", "done"}
  BY <1>1 DEF Visit, Hold, Goto, TypeOK
<1>3. amended => dirty \in [Keys -> Entry0] /\ Promote(dirty)
  BY DEF RangeLocked, IInv, MissesFit, TypeOK
<1>4. amended => Misses(g, dirty)
  BY <1>1, <1>2, <1>3 DEF Misses
<1>5. ~amended => UNCHANGED <<read, amended, dirty, misses>>
  BY DEF RangeLocked
<1>6. QED  BY <1>1, <1>2, <1>4, <1>5

LEMMA RangeLockedMaps ==
  ASSUME IInv, NEW g \in Goroutines, Control(g), RangeLocked(g)
  PROVE  Fate(g) /\ MapFits'
<1>1. CASE amended
  BY <1>1, RangeLockedDoes, MissFate, MissMap
<1>2. CASE ~amended
  BY <1>2, RangeLockedDoes, QuietFate, QuietMap
<1>3. QED  BY <1>1, <1>2

\* Every step keeps the maps.
LEMMA StepMaps ==
  ASSUME IInv, NEW g \in Goroutines, Step(g)
  PROVE  Control(g) /\ Fate(g) /\ MapFits'
<1>1. Control(g)
  BY StepControl
<1>2. CASE Begin(g) \/ Return(g) \/ LoadRead(g) \/ RangeRead(g) \/ RangeEntry(g)
  BY <1>1, <1>2, QuietMaps
<1>3. CASE AccessEntry(g) \/ LoadLocked(g) \/ StoreLocked(g) \/ FillLocked(g)
  BY <1>1, <1>3, AccessEntryMaps, LoadLockedMaps, StoreLockedMaps, FillLockedMaps
<1>4. CASE Expunge(g) \/ Publish(g) \/ RangeLocked(g)
  BY <1>1, <1>4, ExpungeStep, PublishMaps, RangeLockedMaps
<1>5. QED  BY <1>1, <1>2, <1>3, <1>4 DEF Step

-----------------------------------------------------------------------------
(* Who holds which entry. *)

LEMMA UsedIsLive ==
  ASSUME NEW e \in Entries, NEW k \in Keys, Uses(e, k)
  PROVE  e \in Live
BY DEF Uses, Gone, Live

LEMMA OneKeyKept ==
  ASSUME IInv, NEW g \in Goroutines, Fate(g)
  PROVE  OneKey'
<1> SUFFICES ASSUME NEW e \in Entries, NEW j \in Keys, NEW k \in Keys, Uses(e, j)', Uses(e, k)'
             PROVE  j = k
  BY DEF OneKey
<1>1. /\ Uses(e, j) \/ (e \notin Live /\ j = call[g].key)
      /\ Uses(e, k) \/ (e \notin Live /\ k = call[g].key)
  BY DEF Fate
<1>2. QED  BY <1>1, UsedIsLive DEF IInv, OneKey

\* Who holds an entry of m.read, or one that is nowhere, holds it after a step
\* only as an entry it held before, or took from the maps.
LEMMA HeldBefore ==
  ASSUME IInv, NEW g \in Goroutines, Control(g), Fate(g), NEW h \in Goroutines, NEW k \in Keys,
         NEW e \in Entries, ent'[h][k] = e, e # read'[k]
  PROVE  \/ ent[h][k] = e
         \/ /\ h = g /\ read[k] = None /\ Has(dirty, k) /\ dirty[k] = e /\ p' = p
            /\ \/ call[g].op = "Load" /\ ~Gone(e, k)'
               \/ call[g].op = "LoadAndDelete" /\ Gone(e, k)'
BY DEF Fate

\* Who holds an entry after a step was in the same call before it.
LEMMA SameCall ==
  ASSUME IInv, NEW g \in Goroutines, Step(g), Control(g), NEW h \in Goroutines, NEW k \in Keys,
         ent'[h][k] # None
  PROVE  call'[h] = call[h]
<1>1. CASE h # g
  BY <1>1 DEF Control, Apart
<1>2. CASE h = g /\ (Begin(g) \/ Return(g))
  BY <1>2 DEF Begin, Return, IInv, CallsFit, CallFits
<1>3. CASE h = g /\ ~(Begin(g) \/ Return(g))
  BY <1>3 DEF Step, LoadRead, AccessEntry, LoadLocked, StoreLocked, FillLocked, Expunge,
              Publish, RangeRead, RangeLocked, RangeEntry
<1>4. QED  BY <1>1, <1>2, <1>3

LEMMA DirtyHasValuesKept ==
  ASSUME IInv, NEW g \in Goroutines, Step(g), Control(g), Fate(g)
  PROVE  DirtyHasValues'
<1> SUFFICES ASSUME NEW k \in Keys, read'[k] = None, Has(dirty, k)'
             PROVE  /\ p'[dirty'[k]] \in Values
                    /\ \A h \in Goroutines : ent'[h][k] = dirty'[k] => call'[h].op = "Load"
  BY DEF DirtyHasValues
<1>1. PICK e \in Entries : e = dirty'[k] /\ e # None
  BY DEF Control, TypeOK, Has, Entry0
<1>2. CASE read[k] = None /\ Has(dirty, k) /\ dirty[k] = e /\ (p'[e] = p[e] \/ p'[e] \in Values)
  <2>1. p'[e] \in Values /\ \A h \in Goroutines : ent[h][k] = e => call[h].op = "Load"
    BY <1>2 DEF IInv, DirtyHasValues
  <2>2. ASSUME NEW h \in Goroutines, ent'[h][k] = e
        PROVE  call'[h].op = "Load"
    <3>1. ~Gone(e, k)' /\ e # read'[k]
      BY <1>1 DEF Gone, Has
    <3>2. ent[h][k] = e \/ (h = g /\ call[g].op = "Load")
      BY <1>1, <2>2, <3>1, HeldBefore
    <3>3. call[h].op = "Load"
      BY <2>1, <3>2
    <3>4. QED  BY <1>1, <2>2, <3>3, SameCall
  <2>3. QED  BY <1>1, <2>1, <2>2
<1>3. CASE e \notin Live /\ p'[e] \in Values
  <2>1. \A h \in Goroutines : ent'[h][k] # e
    BY <1>1, <1>3, HeldBefore DEF Live, Has
  <2>2. QED  BY <1>1, <1>3, <2>1
<1>4. QED  BY <1>1, <1>2, <1>3 DEF Fate

\* Only a Store that has found its key in m.read holds mu and an entry.
LEMMA LockedKept ==
  ASSUME IInv, NEW g \in Goroutines, Step(g), Control(g), Fate(g), NEW h \in Goroutines, pc'[h] = "locked",
         NEW k \in Keys, ent'[h][k] # None
  PROVE  ent'[h][k] = read'[k] /\ p'[ent'[h][k]] # expunged
<1>1. CASE h # g
  <2>1. pc[h] = "locked" /\ ent'[h] = ent[h] /\ mu = h /\ h # None
    BY <1>1, SyncMapAssumption DEF Control, Apart, IInv, CallsFit, CallFits
  <2>2. ent[h][k] = read[k] /\ p[read[k]] # expunged /\ read[k] \in Entries
    BY <2>1 DEF IInv, HoldersFit, EntriesConsistent, TypeOK, Entry0
  <2>3. QED  BY <1>1, <2>1, <2>2 DEF Fate
<1>2. CASE h = g /\ StoreLocked(g)
  <2>1. TypeOK
    BY DEF IInv, EntriesConsistent
  <2>2. pc'[g] = "locked"
    BY <1>2
  <2>3. CASE StoreInRead(g)
    <3>1. /\ ent'[g] = Only(call[g].key, read[call[g].key]) /\ p'[read[call[g].key]] # expunged /\ read' = read
      BY <1>2, <2>3, StoreInReadStep
    <3>2. k = call[g].key /\ ent'[g][k] = read[k]
      BY <1>2, <3>1 DEF Only, NoEntries
    <3>3. QED  BY <1>2, <3>1, <3>2
  <2>4. CASE StoreInDirty(g)
    BY <1>2, <2>2, <2>4, StoreInDirtyDoes
  <2>5. CASE StoreNew(g)
    BY <1>2, <2>1, <2>2, <2>5 DEF StoreNew, Insert, Finish, Goto, TypeOK
  <2>6. CASE MakeDirty(g)
    BY <2>1, <2>2, <2>6 DEF MakeDirty, Goto, TypeOK
  <2>7. QED  BY <1>2, <2>3, <2>4, <2>5, <2>6, StoreLockedWays
<1>3. CASE h = g /\ ~StoreLocked(g)
  <2>1. TypeOK
    BY DEF IInv, EntriesConsistent
  <2>2. pc'[g] = "locked"
    BY <1>3
  <2>3. CASE AccessEntry(g) \/ LoadLocked(g) \/ FillLocked(g) \/ RangeLocked(g)
    BY <2>2, <2>3, AccessEntryDoes, LoadLockedDoes, FillLockedDoes, RangeLockedDoes
  <2>4. CASE Begin(g) \/ Return(g) \/ LoadRead(g) \/ RangeRead(g) \/ RangeEntry(g)
    BY <2>2, <2>4, QuietSteps
  <2>5. CASE Expunge(g)
    BY <2>2, <2>5 DEF Expunge
  <2>6. CASE Publish(g)
    BY <2>1, <2>2, <2>6 DEF Publish, Insert, Finish, Goto, TypeOK
  <2>7. QED  BY <1>3, <2>3, <2>4, <2>5, <2>6 DEF Step
<1>4. QED  BY <1>1, <1>2, <1>3

\* Who has an entry in mind without mu has had it there, or has just found it.
LEMMA EntryBefore ==
  ASSUME IInv, NEW g \in Goroutines, Step(g), Control(g), NEW h \in Goroutines, pc'[h] = "entry",
         NEW k \in Keys, ent[h][k] # None
  PROVE  pc[h] = "entry"
<1>1. CASE h # g
  BY <1>1 DEF Control, Apart
<1>2. CASE h = g
  <2>1. TypeOK /\ pc[g] \in {"entry", "locked", "expunge"} /\ pc'[g] = "entry"
    BY <1>2 DEF IInv, EntriesConsistent, CallsFit, CallFits
  <2>2. CASE pc[g] = "locked"
    BY <2>1, <2>2, FillLockedDoes DEF Step, Begin, Return, LoadRead, AccessEntry, LoadLocked, StoreLocked,
         Expunge, Publish, RangeRead, RangeLocked, RangeEntry
  <2>3. CASE pc[g] = "expunge" /\ Publish(g)
    BY <2>1, <2>3 DEF Publish, Insert, Finish, Goto, TypeOK
  <2>4. CASE pc[g] = "expunge" /\ ~Publish(g)
    BY <2>1, <2>4 DEF Step, Begin, Return, LoadRead, AccessEntry, LoadLocked, StoreLocked, FillLocked,
         Expunge, RangeRead, RangeLocked, RangeEntry
  <2>5. QED  BY <1>2, <2>1, <2>2, <2>3, <2>4
<1>3. QED  BY <1>1, <1>2

\* What the holder of an entry knew of it still holds.
LEMMA HoldersKept ==
  ASSUME IInv, NEW g \in Goroutines, Step(g), Control(g), Fate(g)
  PROVE  HoldersFit'
<1> SUFFICES ASSUME NEW h \in Goroutines, NEW k \in Keys, ent'[h][k] # None
             PROVE  HoldersFit!(h, k)'
  BY DEF HoldersFit
<1>1. PICK e \in Entries : e = ent'[h][k]
  BY DEF Control, TypeOK, Entry0
<1>1a. call'[h] = call[h]
  BY SameCall
<1>2. ASSUME pc'[h] = "entry", e # read'[k]
      PROVE  \/ call[h].op = "Load"
             \/ Gone(e, k)' /\ p'[e] = expunged
             \/ /\ call[h].op = "LoadAndDelete" /\ Gone(e, k)' /\ p'[e] \in Values
                /\ \A j \in Goroutines \ {h} : ent'[j][k] = e => call'[j].op = "Load"
  <2>1. CASE ent[h][k] = e /\ e = read[k]
    <3>1. ~Gone(e, k) /\ Gone(e, k)'
      BY <1>1, <1>2, <2>1 DEF Fate, Gone
    <3>2. p' = p /\ p[e] = expunged
      BY <1>1, <2>1, <3>1 DEF Fate
    <3>3. QED  BY <3>1, <3>2
  <2>2. CASE ent[h][k] = e /\ e # read[k]
    <3>1. pc[h] = "entry"
      BY <1>1, <1>2, <2>2, EntryBefore
    <3>2. CASE call[h].op = "Load"
      BY <3>2
    <3>3. CASE call[h].op # "Load" /\ Gone(e, k) /\ p[e] = expunged
      BY <1>1, <2>2, <3>3, SyncMapAssumption DEF Fate, Uses
    <3>4. CASE /\ call[h].op = "LoadAndDelete" /\ Gone(e, k) /\ p[e] \in Values
               /\ \A j \in Goroutines \ {h} : ent[j][k] = e => call[j].op = "Load"
      <4>1. Uses(e, k) /\ Gone(e, k)'
        BY <1>1, <2>2, <3>4 DEF Fate, Uses
      <4>2. p'[e] = p[e]
        <5>1. ent[g][k] = e /\ call[g].op = "LoadAndDelete" => g = h
          BY <3>4
        <5>2. QED  BY <1>1, <3>4, <4>1, <5>1 DEF Fate
      <4>3. ASSUME NEW j \in Goroutines \ {h}, ent'[j][k] = e
            PROVE  call'[j].op = "Load"
        <5>1. ent[j][k] = e
          BY <1>1, <1>2, <3>4, <4>3, HeldBefore DEF Gone, Has
        <5>2. QED  BY <1>1, <3>4, <4>3, <5>1, SameCall
      <4>4. QED  BY <3>4, <4>1, <4>2, <4>3
    <3>5. QED  BY <1>1, <2>2, <3>1, <3>2, <3>3, <3>4 DEF IInv, HoldersFit
  <2>3. CASE ent[h][k] # e
    <3>1. /\ h = g /\ read[k] = None /\ Has(dirty, k) /\ dirty[k] = e /\ p' = p
          /\ \/ call[g].op = "Load"
             \/ call[g].op = "LoadAndDelete" /\ Gone(e, k)'
      BY <1>1, <1>2, <2>3, HeldBefore
    <3>2. /\ p[e] \in Values /\ \A j \in Goroutines : ent[j][k] = e => call[j].op = "Load"
      BY <3>1 DEF IInv, DirtyHasValues
    <3>3. ASSUME NEW j \in Goroutines \ {h}, ent'[j][k] = e
          PROVE  call'[j].op = "Load"
      <4>1. ent[j][k] = e
        BY <1>1, <1>2, <3>1, <3>3, HeldBefore
      <4>2. QED  BY <1>1, <3>2, <3>3, <4>1, SameCall
    <3>4. QED  BY <3>1, <3>2, <3>3
  <2>4. QED  BY <2>1, <2>2, <2>3
<1>3. pc'[h] = "locked" => e = read'[k] /\ p'[e] # expunged
  BY <1>1, LockedKept
<1>4. QED  BY <1>1, <1>1a, <1>2, <1>3

-----------------------------------------------------------------------------
(* What the calls have seen. *)

\* What has left the maps is not the entry of its key.
LEMMA GoneIsNot ==
  ASSUME MissesFit, NEW e, NEW k, Gone(e, k)
  PROVE  EntryOf(k) # e
BY DEF MissesFit, Gone, EntryOf

LEMMA GoneIsNotNext ==
  ASSUME MissesFit', NEW e, NEW k, Gone(e, k)'
  PROVE  EntryOf(k)' # e
BY DEF MissesFit, Gone, EntryOf

LEMMA RememberIs ==
  ASSUME Remember, NEW g \in Goroutines, NEW k \in Keys
  PROVE  seen'[g][k] = IF Watching(g, k)' THEN seen[g][k] \cup {Value(k)'} ELSE {}
BY DEF Remember, Watching, About

LEMMA SeenKept ==
  ASSUME IInv, Remember
  PROVE  SeenFits'
<1>1. ASSUME NEW k \in Keys
      PROVE  Value(k)' \in Values \cup {None}
  BY DEF Value
<1>2. seen' \in [Goroutines -> [Keys -> SUBSET (Values \cup {None})]]
  BY <1>1 DEF Remember, IInv, SeenFits
<1>3. QED  BY <1>2, RememberIs DEF SeenFits

\* A call that has an entry, and has not taken it, is still to say what it read.
LEMMA HolderWatches ==
  ASSUME CallsFit, NEW g \in Goroutines, NEW k \in Keys, pc[g] = "entry", ent[g][k] # None,
         call[g].op # "Store", ~Taken(g)
  PROVE  Watching(g, k)
BY DEF CallsFit, CallFits, Watching, About, Decided, Outcome

LEMMA GoneSeenKept ==
  ASSUME IInv, NEW g \in Goroutines, Step(g), Control(g), Fate(g), MapFits', Remember
  PROVE  GoneWasSeen'
<1> SUFFICES ASSUME NEW h \in Goroutines, NEW k \in Keys, pc'[h] = "entry", ent'[h][k] # None,
                    Gone(ent[h][k], k)', call'[h].op # "Store", ~Taken(h)'
             PROVE  LET e == ent'[h][k] IN
                      None \in seen'[h][k] /\ (p'[e] \in Values => p'[e] \in seen'[h][k])
  BY DEF GoneWasSeen
<1>1. PICK e \in Entries : e = ent'[h][k]
  BY DEF Control, TypeOK, Entry0
<1>2. call'[h] = call[h] /\ Gone(e, k)' /\ e # None /\ e # read'[k]
  BY <1>1, SameCall DEF Gone
<1>3. seen'[h][k] = seen[h][k] \cup {Value(k)'}
  <2>1. Watching(h, k)'
    BY <1>1 DEF Control, CallsFit, CallFits, Watching, About, Decided, Outcome
  <2>2. QED  BY <2>1, RememberIs
<1>4. EntryOf(k)' # e
  BY <1>2, GoneIsNotNext DEF MapFits
<1>5. call'[h].op = "LoadAndDelete" => call'[h].key = k
  BY <1>1, <1>2 DEF Control, CallsFit, CallFits, About
<1>6. ~(call[h].op = "LoadAndDelete" /\ p'[e] \in Values)
  BY <1>1, <1>2, <1>4, <1>5 DEF Taken
<1>7. CASE ent[h][k] = e
  <2>1. pc[h] = "entry" /\ Uses(e, k)
    BY <1>2, <1>7, EntryBefore DEF Uses
  <2>2. CASE Gone(e, k) /\ ~Taken(h)
    <3>1. None \in seen[h][k] /\ (p[e] \in Values => p[e] \in seen[h][k])
      BY <1>2, <1>7, <2>1, <2>2 DEF IInv, GoneWasSeen
    <3>2. p'[e] = p[e] \/ p'[e] = nil
      BY <2>1, <2>2 DEF Fate
    <3>3. nil \notin Values
      BY SyncMapAssumption
    <3>4. QED  BY <1>1, <1>3, <3>1, <3>2, <3>3
  <2>3. CASE Gone(e, k) /\ Taken(h)
    <3>1. call[h].op = "LoadAndDelete" /\ call[h].key = k /\ p[e] \in Values
      BY <1>2, <1>5, <1>7, <2>3 DEF Taken
    <3>2. \A j \in Goroutines \ {h} : ent[j][k] = e => call[j].op = "Load"
      BY <1>2, <1>7, <2>1, <2>3, <3>1, SyncMapAssumption DEF IInv, HoldersFit, Gone
    <3>3. ent[g][k] = e /\ ent'[g][k] = None /\ call[g].op = "LoadAndDelete" => FALSE
      BY <1>1, <1>2, <3>2
    <3>4. p'[e] = p[e]
      BY <2>1, <2>3, <3>3 DEF Fate
    <3>5. QED  BY <1>6, <3>1, <3>4
  <2>4. CASE ~Gone(e, k)
    <3>1. Value(k)' = None /\ p' = p
      BY <1>2, <2>4 DEF Fate
    <3>2. CASE p[e] = expunged
      BY <1>1, <1>3, <3>1, <3>2, SyncMapAssumption
    <3>3. CASE read[k] = None /\ Has(dirty, k) /\ dirty[k] = e /\ p[e] = Value(k)
      <4>1. call[h].op = "Load"
        BY <1>7, <3>3 DEF IInv, DirtyHasValues
      <4>2. Watching(h, k)
        BY <1>2, <1>7, <2>1, <4>1, HolderWatches DEF IInv, Taken
      <4>3. Value(k) \in seen[h][k]
        BY <4>2 DEF IInv, SeenFits
      <4>4. QED  BY <1>1, <1>3, <3>1, <3>3, <4>3
    <3>4. QED  BY <1>2, <2>4, <3>2, <3>3 DEF Fate
  <2>5. QED  BY <2>2, <2>3, <2>4
<1>8. CASE ent[h][k] # e
  <2>1. /\ h = g /\ read[k] = None /\ Has(dirty, k) /\ dirty[k] = e /\ p' = p
        /\ call[g].op = "LoadAndDelete"
    BY <1>1, <1>2, <1>8, HeldBefore
  <2>2. p[e] \in Values
    BY <2>1 DEF IInv, DirtyHasValues
  <2>3. QED  BY <1>6, <2>1, <2>2
<1>9. QED  BY <1>7, <1>8

-----------------------------------------------------------------------------
(* The invariant. *)

LEMMA InitIInv == Init => IInv
<1> SUFFICES ASSUME Init PROVE IInv
  OBVIOUS
<1>1. TypeOK
  BY InitTypeOK
<1>2. \A k \in Keys : read[k] = None /\ Value(k) = None
  BY DEF Init, NoEntries, Value, EntryOf
<1>3. /\ dirty = nil /\ ~amended /\ misses = 0 /\ mu = None
      /\ \A g \in Goroutines : /\ pc[g] = "idle" /\ call[g] = None /\ mu # g
                               /\ \A k \in Keys : ent[g][k] = None /\ out[g][k] = <<>>
  BY SyncMapAssumption DEF Init, NoEntries
<1>4. EntriesConsistent /\ MissesFit /\ DirtyInTheMaking /\ DirtyHasValues
  BY <1>1, <1>2, <1>3 DEF EntriesConsistent, MissesFit, DirtyInTheMaking, DirtyHasValues, Has
<1>5. CallsFit
  BY <1>3 DEF CallsFit, CallFits, About, Decided
<1>6. OneKey
  BY <1>2, <1>3, SyncMapAssumption DEF OneKey, Uses, Gone
<1>7. HoldersFit /\ GoneWasSeen
  BY <1>3 DEF HoldersFit, GoneWasSeen
<1>8. SeenFits
  BY <1>3 DEF Init, SeenFits, Watching, About
<1>9. QED  BY <1>4, <1>5, <1>6, <1>7, <1>8 DEF IInv

LEMMA NextIInv ==
  ASSUME IInv, [Next]_vars
  PROVE  IInv'
<1>1. CASE UNCHANGED vars
  BY <1>1 DEF IInv, EntriesConsistent, TypeOK, CallsFit, CallFits, OneKey, DirtyInTheMaking, DirtyHasValues,
     HoldersFit, GoneWasSeen, SeenFits, MissesFit, vars, map, About, Decided, Uses, Gone, Watching, Taken,
     Outcome, Value, EntryOf, Has, Size
<1>2. CASE Next
  <2>1. PICK g \in Goroutines : Step(g)
    BY <1>2 DEF Next
  <2>2. Remember /\ Control(g) /\ Fate(g) /\ MapFits'
    BY <1>2, <2>1, StepMaps DEF Next
  <2>3. OneKey' /\ DirtyHasValues' /\ HoldersFit'
    BY <2>1, <2>2, OneKeyKept, DirtyHasValuesKept, HoldersKept
  <2>4. GoneWasSeen' /\ SeenFits'
    BY <2>1, <2>2, GoneSeenKept, SeenKept
  <2>5. QED  BY <2>2, <2>3, <2>4 DEF IInv, MapFits, Control
<1>3. QED  BY <1>1, <1>2

\* An entry belongs to one key, and who holds one that has left the maps knows
\* that its key has had no value since: the invariant of the two maps, their
\* promotions and the calls in flight.
THEOREM Invariance == Spec => []IInv
BY InitIInv, NextIInv, PTL DEF Spec

\* The comment of entry: an entry is expunged just when a dirty map has left it
\* out, the dirty map has every other entry of m.read, and a dirty map is
\* promoted after as many misses as it has keys.
THEOREM EntriesStayConsistent == Spec => []EntriesConsistent
<1>1. IInv => EntriesConsistent
  BY DEF IInv
<1>2. QED  BY <1>1, Invariance, PTL

-----------------------------------------------------------------------------
(* sync.Map is linearizable. *)

\* An entry is that of its key just when the maps have it.
EntriesAre == \A e \in Entries, k \in Keys : EntryOf(k) = e <=> ~Gone(e, k)

LEMMA EntryIs == IInv => EntriesAre
<1> SUFFICES ASSUME IInv, NEW e \in Entries, NEW k \in Keys
             PROVE  EntryOf(k) = e <=> ~Gone(e, k)
  BY DEF EntriesAre
<1>1. e # None
  BY SyncMapAssumption
<1>2. CASE Gone(e, k)
  BY <1>2, GoneIsNot DEF IInv
<1>3. CASE read[k] = e
  BY <1>1, <1>3 DEF EntryOf, Gone
<1>4. CASE ~Gone(e, k) /\ read[k] # e
  <2>1. dirty # nil /\ dirty[k] = e /\ Has(dirty, k)
    BY <1>1, <1>4 DEF Gone, Has
  <2>2. read[k] = None
    BY <1>4, <2>1 DEF IInv, EntriesConsistent
  <2>3. amended
    <3>1. CASE \E h \in Goroutines : pc[h] = "expunge"
      BY <1>1, <2>1, <2>2, <3>1 DEF IInv, DirtyInTheMaking
    <3>2. QED  BY <2>1, <3>1 DEF IInv, MissesFit
  <2>4. QED  BY <1>4, <2>1, <2>2, <2>3 DEF EntryOf
<1>5. QED  BY <1>2, <1>3, <1>4

LEMMA EntryIsNext == IInv' => EntriesAre'
BY EntryIs, PTL

\* Who has taken the entry it holds: nobody else can.
LEMMA TakenIsGone ==
  ASSUME IInv, NEW g \in Goroutines, NEW e \in Entries, NEW k \in Keys,
         k = call[g].key, e = ent[g][k]
  PROVE  Taken(g) <=> /\ pc[g] = "entry" /\ call[g].op = "LoadAndDelete"
                      /\ Gone(e, k) /\ p[e] \in Values
BY EntryIs DEF Taken, EntriesAre

\* A step of another call is nothing to what a call has to say.
LEMMA OutcomeKept ==
  ASSUME IInv, IInv', NEW g \in Goroutines, Step(g), Control(g), Fate(g), NEW h \in Goroutines \ {g}
  PROVE  Outcome(h)' = Outcome(h)
<1>1. Apart(h)
  BY DEF Control
<1>2. CASE ~(pc[h] = "entry" /\ call[h].op = "LoadAndDelete")
  BY <1>1, <1>2 DEF Apart, Outcome, Taken
<1>3. CASE pc[h] = "entry" /\ call[h].op = "LoadAndDelete"
  <2>1. PICK k \in Keys : k = call[h].key
    BY <1>3, InCall DEF IInv, EntriesConsistent
  <2>2. PICK e \in Entries : e = ent[h][k] /\ e # None
    BY <1>3, <2>1, InCall, SyncMapAssumption DEF IInv, EntriesConsistent
  <2>3. Uses(e, k)
    BY <2>2 DEF Uses
  <2>4. Taken(h) <=> Gone(e, k) /\ p[e] \in Values
    BY <1>3, <2>1, <2>2, TakenIsGone
  <2>5. Taken(h)' <=> EntryOf(k)' # e /\ p'[e] \in Values
    BY <1>1, <1>3, <2>1, <2>2 DEF Apart, Taken
  <2>6. EntryOf(k)' = e <=> ~Gone(e, k)'
    BY EntryIsNext DEF EntriesAre
  <2>7. ASSUME Gone(e, k), p[e] \in Values
        PROVE  Gone(e, k)' /\ p'[e] = p[e]
    <3>1. \A j \in Goroutines \ {h} : ent[j][k] = e => call[j].op = "Load"
      BY <1>3, <2>2, <2>7, SyncMapAssumption DEF IInv, HoldersFit, Gone
    <3>2. ent[g][k] = e => call[g].op # "LoadAndDelete"
      BY <3>1
    <3>3. QED  BY <2>3, <2>7, <3>2 DEF Fate
  <2>8. ASSUME Gone(e, k)', p'[e] \in Values
        PROVE  Gone(e, k) /\ p[e] = p'[e]
    <3>1. CASE Gone(e, k)
      BY <2>3, <2>8, <3>1, SyncMapAssumption DEF Fate
    <3>2. CASE ~Gone(e, k)
      <4>1. p' = p /\ p[e] # expunged
        BY <2>8, <3>2, SyncMapAssumption DEF Fate
      <4>2. read[k] = None /\ Has(dirty, k) /\ dirty[k] = e
        BY <2>8, <3>2, <4>1 DEF Fate
      <4>3. QED  BY <1>3, <2>2, <4>2 DEF IInv, DirtyHasValues
    <3>3. QED  BY <3>1, <3>2
  <2>9. Taken(h)' <=> Taken(h)
    BY <2>4, <2>5, <2>6, <2>7, <2>8
  <2>10. Taken(h) => p'[e] = p[e]
    BY <2>4, <2>7
  <2>11. QED  BY <1>1, <2>1, <2>2, <2>9, <2>10 DEF Apart, Outcome
<1>4. QED  BY <1>2, <1>3

\* seen is the history that AtomicMap keeps.
LEMMA PromiseRemembers == ASSUME Remember PROVE Promise!Remember
BY DEF Remember, Promise!Remember, Promise!Undecided, Promise!Asked

\* A step that changes no value, no call and no outcome is no step of AtomicMap.
LEMMA Stutters ==
  ASSUME IInv, Remember, call' = call, \A k \in Keys : Value(k)' = Value(k),
         \A h \in Goroutines : Outcome(h)' = Outcome(h)
  PROVE  UNCHANGED Promise!vars
<1>1. ASSUME NEW h \in Goroutines, NEW k \in Keys
      PROVE  seen'[h][k] = seen[h][k]
  <2>1. Watching(h, k)' <=> Watching(h, k)
    BY DEF Watching, About
  <2>2. QED  BY <2>1, RememberIs DEF IInv, SeenFits
<1>2. seen' = seen
  <2>1. /\ seen \in [Goroutines -> [Keys -> SUBSET (Values \cup {None})]]
        /\ seen' \in [Goroutines -> [Keys -> SUBSET (Values \cup {None})]]
    BY SeenKept DEF IInv, SeenFits
  <2>2. \A h \in Goroutines : seen'[h] = seen[h]
    BY <1>1, <2>1
  <2>3. QED  BY <2>1, <2>2
<1>3. QED  BY <1>2 DEF Promise!vars

\* A step that says of some keys what the call has seen, and changes no value.
LEMMA ReadsSome ==
  ASSUME IInv, NEW g \in Goroutines, Remember, call' = call, call[g] # None, call[g].op # "Store",
         \A k \in Keys : Value(k)' = Value(k),
         NEW ks \in SUBSET Keys, NEW f \in [ks -> Values \cup {None}],
         \A k \in ks : Watching(g, k) /\ f[k] \in seen[g][k],
         call[g].op = "LoadOrStore" => \A k \in ks : f[k] # None,
         call[g].op = "LoadAndDelete" => \A k \in ks : f[k] = None,
         Outcome(g)' = [k \in Keys |-> IF k \in ks THEN Promise!Found(f[k]) ELSE Outcome(g)[k]],
         \A h \in Goroutines \ {g} : Outcome(h)' = Outcome(h)
  PROVE  Promise!Next
<1>1. ks \in SUBSET Promise!Undecided(g)
  BY DEF Promise!Undecided, Promise!Asked, Watching, About
<1> DEFINE o == [h \in Goroutines |-> Outcome(h)]
           Reported(js, e) ==
             /\ \A k \in js : e[k] \in seen[g][k]
             /\ call[g].op = "LoadOrStore" => \A k \in js : e[k] # None
             /\ call[g].op = "LoadAndDelete" => \A k \in js : e[k] = None
             /\ [h \in Goroutines |-> Outcome(h)'] =
                  [o EXCEPT ![g] = [k \in Keys |-> IF k \in js THEN Promise!Found(e[k]) ELSE o[g][k]]]
<1>2. Reported(ks, f)
  OBVIOUS
<1>3. Promise!Read(g)
  <2>1. [k \in Keys |-> Value(k)'] = [k \in Keys |-> Value(k)]
    OBVIOUS
  <2>2. \E js \in SUBSET Promise!Undecided(g) : \E e \in [js -> Values \cup {None}] : Reported(js, e)
    <3> HIDE DEF Reported
    <3>1. QED  BY <1>1, <1>2
  <2>3. QED  BY <2>1, <2>2 DEF Promise!Read
<1>4. QED  BY <1>3, PromiseRemembers DEF Promise!Next

LEMMA ReadsOne ==
  ASSUME IInv, NEW g \in Goroutines, Remember, call' = call, call[g] # None, call[g].op # "Store",
         \A k \in Keys : Value(k)' = Value(k), NEW k \in Keys, NEW v \in Values \cup {None},
         Watching(g, k), v \in seen[g][k],
         call[g].op = "LoadOrStore" => v # None, call[g].op = "LoadAndDelete" => v = None,
         Outcome(g)' = [Outcome(g) EXCEPT ![k] = Found(v)],
         \A h \in Goroutines \ {g} : Outcome(h)' = Outcome(h)
  PROVE  Promise!Next
<1> DEFINE f == [j \in {k} |-> v]
<1>1. Found(v) = Promise!Found(v)
  BY SyncMapAssumption DEF Found, Promise!Found
<1>2. Outcome(g) = [j \in Keys |-> Outcome(g)[j]]
  BY DEF Outcome, IInv, EntriesConsistent, TypeOK
<1>3. Outcome(g)' = [j \in Keys |-> IF j \in {k} THEN Promise!Found(f[j]) ELSE Outcome(g)[j]]
  BY <1>1, <1>2
<1>4. {k} \in SUBSET Keys /\ f \in [{k} -> Values \cup {None}] /\ f[k] = v
  OBVIOUS
<1> HIDE DEF f
<1>5. QED  BY <1>3, <1>4, ReadsSome

\* A step that changes the value of the key of the call.
LEMMA WritesOne ==
  ASSUME IInv, NEW g \in Goroutines, Remember, call' = call, call[g] # None,
         call[g].op \in {"Store", "LoadOrStore", "LoadAndDelete"}, NEW k \in Keys, k = call[g].key,
         Outcome(g)[k] = <<>>,
         call[g].op = "LoadOrStore" => Value(k) = None,
         call[g].op = "LoadAndDelete" => Value(k) # None,
         \A j \in Keys : Value(j)' =
            IF j # k THEN Value(j) ELSE IF call[g].op = "LoadAndDelete" THEN None ELSE call[g].val,
         Outcome(g)' = [Outcome(g) EXCEPT ![k] =
            IF call[g].op = "LoadAndDelete" THEN <<Value(k), TRUE>> ELSE <<call[g].val, FALSE>>],
         \A h \in Goroutines \ {g} : Outcome(h)' = Outcome(h)
  PROVE  Promise!Next
<1> DEFINE o == [h \in Goroutines |-> Outcome(h)]
           c == [j \in Keys |-> Value(j)]
           v == IF call[g].op = "LoadAndDelete" THEN None ELSE call[g].val
           r == IF call[g].op = "LoadAndDelete" THEN <<Value(k), TRUE>> ELSE <<call[g].val, FALSE>>
<1>1. k \in Promise!Undecided(g)
  BY DEF Promise!Undecided, Promise!Asked
<1>2. [j \in Keys |-> Value(j)'] = [c EXCEPT ![k] = v]
  OBVIOUS
<1>3. [h \in Goroutines |-> Outcome(h)'] = [o EXCEPT ![g][k] = r]
  OBVIOUS
<1>4. c[k] = Value(k)
  OBVIOUS
<1>5. Promise!Write(g)
  <2>1. CASE call[g].op = "LoadAndDelete"
    BY <1>1, <1>2, <1>3, <1>4, <2>1 DEF Promise!Write
  <2>2. CASE call[g].op # "LoadAndDelete"
    BY <1>1, <1>2, <1>3, <1>4, <2>2 DEF Promise!Write
  <2>3. QED  BY <2>1, <2>2
<1>6. QED  BY <1>5, PromiseRemembers DEF Promise!Next

\* What the maps hold after each kind of step.
LEMMA EntryTypes ==
  ASSUME IInv, NEW k \in Keys
  PROVE  EntryOf(k) \in Entry0
BY DEF IInv, EntriesConsistent, TypeOK, MissesFit, EntryOf

LEMMA WriteValues ==
  ASSUME IInv, NEW a \in Entries, NEW key \in Keys, Uses(a, key), NEW v \in Values \cup {nil},
         UNCHANGED <<read, amended, dirty>>, p' = [p EXCEPT ![a] = v]
  PROVE  \A j \in Keys : Value(j)' =
           IF j = key /\ ~Gone(a, key) THEN IF v \in Values THEN v ELSE None ELSE Value(j)
<1> TAKE j \in Keys
<1>1. EntryOf(j)' = EntryOf(j) /\ EntryOf(j) \in Entry0
  BY EntryTypes DEF EntryOf
<1>2. \A x \in Entries : p'[x] = IF x = a THEN v ELSE p[x]
  BY DEF IInv, EntriesConsistent, TypeOK
<1>3. EntryOf(j) = a <=> j = key /\ ~Gone(a, key)
  <2>1. EntryOf(j) = a <=> ~Gone(a, j)
    BY EntryIs DEF EntriesAre
  <2>2. ~Gone(a, j) => j = key
    BY DEF IInv, OneKey, Uses
  <2>3. QED  BY <2>1, <2>2
<1>4. a # None
  BY SyncMapAssumption
<1>5. QED  BY <1>1, <1>2, <1>3, <1>4 DEF Value, Entry0

LEMMA MissValues ==
  ASSUME IInv, NEW g \in Goroutines, NEW d, Misses(g, d)
  PROVE  \A j \in Keys : Value(j)' = IF d[j] = dirty[j] THEN Value(j) ELSE None
<1> TAKE j \in Keys
<1>1. /\ d[j] = dirty[j] \/ (read[j] = None /\ d[j] = None)
      /\ read[j] # None => d[j] = dirty[j]
      /\ dirty[j] # None => read[j] \in {None, dirty[j]}
      /\ read[j] # None => (p[read[j]] = expunged <=> dirty[j] # read[j])
  BY MissFacts
<1>2. \/ read' = d /\ amended' = FALSE
      \/ read' = read /\ amended' = amended /\ dirty' = d
  BY MissFacts
<1>3. p' = p /\ amended /\ expunged \notin Values
  BY SyncMapAssumption DEF Misses
<1>4. CASE read' = d /\ amended' = FALSE
  BY <1>1, <1>3, <1>4 DEF Value, EntryOf
<1>5. CASE read' = read /\ amended' = amended /\ dirty' = d
  BY <1>1, <1>3, <1>5 DEF Value, EntryOf
<1>6. QED  BY <1>2, <1>4, <1>5

LEMMA InsertValues ==
  ASSUME IInv, NEW g \in Goroutines, Inserts(g)
  PROVE  /\ Value(call[g].key) = None
         /\ \A j \in Keys : Value(j)' = IF j = call[g].key THEN call[g].val ELSE Value(j)
<1>1. PICK a \in Entries :
           /\ a \notin Live /\ \A k \in Keys : ~Uses(a, k)
           /\ dirty' = [dirty EXCEPT ![call[g].key] = a]
           /\ p' = [p EXCEPT ![a] = call[g].val]
           /\ ent'[g] = NoEntries
  BY InsertFacts
<1>2. /\ read' = read /\ dirty \in [Keys -> Entry0] /\ dirty # nil
      /\ call[g].key \in Keys /\ call[g].val \in Values /\ amended' = TRUE
      /\ read[call[g].key] = None /\ dirty[call[g].key] = None /\ a # None
  BY SyncMapAssumption DEF Inserts, Entry0
<1>3. Value(call[g].key) = None
  BY <1>2 DEF Value, EntryOf
<1>4. ASSUME NEW j \in Keys
      PROVE  Value(j)' = IF j = call[g].key THEN call[g].val ELSE Value(j)
  <2>1. dirty'[j] = IF j = call[g].key THEN a ELSE dirty[j]
    BY <1>1, <1>2
  <2>2. \A x \in Entries : p'[x] = IF x = a THEN call[g].val ELSE p[x]
    BY <1>1 DEF IInv, EntriesConsistent, TypeOK
  <2>3. CASE j = call[g].key
    BY <1>2, <2>1, <2>2, <2>3 DEF Value, EntryOf
  <2>4. CASE j # call[g].key
    <3>1. EntryOf(j)' = EntryOf(j)
      <4>1. ~amended /\ read[j] = None => dirty[j] = None
        BY <1>2 DEF IInv, MissesFit, DirtyInTheMaking
      <4>2. QED  BY <1>2, <2>1, <2>4, <4>1 DEF EntryOf
    <3>2. EntryOf(j) # a /\ EntryOf(j) \in Entry0
      BY <1>1, EntryIs, EntryTypes DEF EntriesAre, Uses
    <3>3. QED  BY <2>2, <2>4, <3>1, <3>2 DEF Value, Entry0
  <2>5. QED  BY <2>3, <2>4
<1>5. QED  BY <1>3, <1>4

LEMMA ValueAt ==
  ASSUME IInv, NEW e \in Entries, NEW k \in Keys, ~Gone(e, k)
  PROVE  Value(k) = IF p[e] \in Values THEN p[e] ELSE None
<1>1. EntryOf(k) = e /\ e # None
  BY EntryIs, SyncMapAssumption DEF EntriesAre
<1>2. QED  BY <1>1 DEF Value

\* What a call has to say when it is over.
LEMMA FinishOutcome ==
  ASSUME IInv, NEW g \in Goroutines, NEW r, Finish(g, r)
  PROVE  Outcome(g)' = [out[g] EXCEPT ![call[g].key] = r]
BY DEF Finish, Goto, Outcome, Taken, IInv, EntriesConsistent, TypeOK

-----------------------------------------------------------------------------
(* Each step, as a step of AtomicMap. *)

Stepping(g) == IInv /\ IInv' /\ Step(g) /\ Control(g) /\ Fate(g) /\ Remember
Refines == Promise!Next \/ UNCHANGED Promise!vars

LEMMA BeginRefines ==
  ASSUME NEW g \in Goroutines, Stepping(g), Begin(g)
  PROVE  Refines
<1> IInv /\ IInv' /\ Step(g) /\ Control(g) /\ Fate(g) /\ Remember /\ TypeOK
  BY DEF Stepping, IInv, EntriesConsistent
<1>1. /\ call[g] = None /\ \E c \in Calls[g] : call' = [call EXCEPT ![g] = c]
      /\ UNCHANGED <<read, amended, dirty, p>>
  BY DEF Begin, map, IInv, CallsFit, CallFits
<1>2. [j \in Keys |-> Value(j)'] = [j \in Keys |-> Value(j)]
  BY <1>1 DEF Value, EntryOf
<1>3. Outcome(g)' = Outcome(g)
  BY DEF Begin, Goto, Outcome, Taken, TypeOK
<1>4. [h \in Goroutines |-> Outcome(h)'] = [h \in Goroutines |-> Outcome(h)]
  BY <1>3, OutcomeKept
<1>5. Promise!Begin(g)
  BY <1>1, <1>2, <1>4 DEF Promise!Begin
<1>6. QED  BY <1>5, PromiseRemembers DEF Promise!Next, Refines

LEMMA ReturnRefines ==
  ASSUME NEW g \in Goroutines, Stepping(g), Return(g)
  PROVE  Refines
<1> IInv /\ IInv' /\ Step(g) /\ Control(g) /\ Fate(g) /\ Remember /\ TypeOK
  BY DEF Stepping, IInv, EntriesConsistent
<1>1. /\ pc[g] = "done" /\ call[g] # None /\ call' = [call EXCEPT ![g] = None]
      /\ UNCHANGED <<read, amended, dirty, p>>
  BY DEF Return, map, IInv, CallsFit, CallFits
<1>2. [j \in Keys |-> Value(j)'] = [j \in Keys |-> Value(j)]
  BY <1>1 DEF Value, EntryOf
<1>3. Outcome(g)' = Promise!NoOut
  BY DEF Return, Goto, Outcome, Taken, TypeOK, Promise!NoOut
<1>4. [h \in Goroutines |-> Outcome(h)'] = [[h \in Goroutines |-> Outcome(h)] EXCEPT ![g] = Promise!NoOut]
  BY <1>3, OutcomeKept
<1>5. Promise!Undecided(g) = {}
  <2>1. \A k \in Promise!Asked(call[g]) : k \in Keys /\ About(g, k)
    BY <1>1, CallTypes DEF Promise!Asked, About
  <2>2. \A k \in Promise!Asked(call[g]) : out[g][k] # <<>>
    BY <1>1, <2>1 DEF IInv, CallsFit, CallFits, Decided
  <2>3. Outcome(g) = out[g]
    BY <1>1 DEF Outcome, Taken
  <2>4. QED  BY <2>2, <2>3 DEF Promise!Undecided
<1>6. Promise!End(g)
  BY <1>1, <1>2, <1>4, <1>5 DEF Promise!End
<1>7. QED  BY <1>6, PromiseRemembers DEF Promise!Next, Refines

LEMMA SteppingFacts ==
  ASSUME NEW g \in Goroutines, Stepping(g)
  PROVE  /\ IInv /\ TypeOK /\ CallsFit /\ Remember /\ Step(g)
         /\ \A h \in Goroutines \ {g} : Outcome(h)' = Outcome(h)
BY OutcomeKept DEF Stepping, IInv, EntriesConsistent

LEMMA StutterStep ==
  ASSUME NEW g \in Goroutines, Stepping(g), call' = call, \A k \in Keys : Value(k)' = Value(k),
         Outcome(g)' = Outcome(g)
  PROVE  Refines
BY SteppingFacts, Stutters DEF Refines

LEMMA ReadStep ==
  ASSUME NEW g \in Goroutines, Stepping(g), call' = call, call[g] # None, call[g].op # "Store",
         \A k \in Keys : Value(k)' = Value(k), NEW k \in Keys, NEW v \in Values \cup {None},
         Watching(g, k), v \in seen[g][k],
         call[g].op = "LoadOrStore" => v # None, call[g].op = "LoadAndDelete" => v = None,
         Outcome(g)' = [Outcome(g) EXCEPT ![k] = Found(v)]
  PROVE  Refines
BY SteppingFacts, ReadsOne DEF Refines

LEMMA WriteStep ==
  ASSUME NEW g \in Goroutines, Stepping(g), call' = call, call[g] # None,
         call[g].op \in {"Store", "LoadOrStore", "LoadAndDelete"}, NEW k \in Keys, k = call[g].key,
         Outcome(g)[k] = <<>>,
         call[g].op = "LoadOrStore" => Value(k) = None,
         call[g].op = "LoadAndDelete" => Value(k) # None,
         \A j \in Keys : Value(j)' =
            IF j # k THEN Value(j) ELSE IF call[g].op = "LoadAndDelete" THEN None ELSE call[g].val,
         Outcome(g)' = [Outcome(g) EXCEPT ![k] =
            IF call[g].op = "LoadAndDelete" THEN <<Value(k), TRUE>> ELSE <<call[g].val, FALSE>>]
  PROVE  Refines
BY SteppingFacts, WritesOne DEF Refines

\* A call that is not about to report anything has its results in out.
LEMMA NotTaken ==
  ASSUME NEW g \in Goroutines, pc[g] # "entry" \/ call[g].op # "LoadAndDelete"
  PROVE  Outcome(g) = out[g]
BY DEF Outcome, Taken

LEMMA NotTakenNext ==
  ASSUME NEW g \in Goroutines, pc'[g] # "entry" \/ call'[g].op # "LoadAndDelete"
  PROVE  Outcome(g)' = out'[g]
BY DEF Outcome, Taken

\* A call that is about k, and has no result yet, watches k.
LEMMA CallWatches ==
  ASSUME CallsFit, NEW g \in Goroutines, NEW k \in Keys, call[g] # None, call[g].op # "Store",
         call[g].op = "Range" \/ call[g].key = k, pc[g] \notin {"done", "entry"}
  PROVE  Watching(g, k) /\ Outcome(g) = out[g]
BY DEF CallsFit, CallFits, Watching, About, Decided, Outcome, Taken

\* A step that goes on with its call, without the maps changing.
LEMMA QuietGoesOn ==
  ASSUME NEW g \in Goroutines, Stepping(g), call' = call, UNCHANGED <<read, amended, dirty, p>>,
         out'[g] = out[g], pc[g] # "entry" \/ call[g].op # "LoadAndDelete",
         pc'[g] # "entry" \/ call[g].op # "LoadAndDelete" \/ ent'[g][call[g].key] = read[call[g].key]
  PROVE  Refines
<1>1. \A k \in Keys : Value(k)' = Value(k)
  BY DEF Value, EntryOf
<1>2. Outcome(g) = out[g]
  BY NotTaken
<1>3. Outcome(g)' = out[g]
  <2>1. CASE pc'[g] # "entry" \/ call[g].op # "LoadAndDelete"
    BY <2>1, NotTakenNext
  <2>2. CASE /\ pc'[g] = "entry" /\ call[g].op = "LoadAndDelete"
             /\ ent'[g][call[g].key] = read[call[g].key]
    <3>1. call'[g] # None
      BY <2>2 DEF Stepping, Control, CallsFit, CallFits
    <3>1a. call[g].key \in Keys
      BY <3>1, SteppingFacts, CallTypes
    <3>1b. ent'[g][call[g].key] # None
      BY <2>2, <3>1, <3>1a DEF Stepping, Control, CallsFit, CallFits, About
    <3>2. ~Taken(g)'
      BY <2>2, <3>1b DEF Taken, EntryOf
    <3>3. QED  BY <3>2 DEF Outcome
  <2>3. QED  BY <2>1, <2>2
<1>4. QED  BY <1>1, <1>2, <1>3, StutterStep

LEMMA LoadReadRefines ==
  ASSUME NEW g \in Goroutines, Stepping(g), LoadRead(g)
  PROVE  Refines
<1> IInv /\ TypeOK /\ CallsFit
  BY SteppingFacts
<1> DEFINE k == call[g].key
<1>1. /\ pc[g] = "read" /\ call[g] # None /\ call[g].op # "Range" /\ k \in Keys
      /\ UNCHANGED <<read, amended, dirty, p, call>>
  BY InCall DEF LoadRead, map
<1>2. CASE read[k] # None
  <2>1. ent'[g] = Only(k, read[k]) /\ out' = out
    BY <1>2 DEF LoadRead, Hold, TypeOK
  <2>2. ent'[g][k] = read[k]
    BY <1>1, <2>1 DEF Only, NoEntries
  <2>3. QED  BY <1>1, <2>1, <2>2, QuietGoesOn
<1>3. CASE read[k] = None /\ (amended \/ call[g].op \in {"Store", "LoadOrStore"})
  <2>1. pc'[g] = "lock" /\ out' = out
    BY <1>3 DEF LoadRead, Goto, TypeOK
  <2>2. QED  BY <1>1, <2>1, QuietGoesOn
<1>4. CASE read[k] = None /\ ~(amended \/ call[g].op \in {"Store", "LoadOrStore"})
  <2>1. Outcome(g)' = [out[g] EXCEPT ![k] = Found(None)]
    BY <1>4, FinishOutcome DEF LoadRead
  <2>2. Value(k) = None
    BY <1>4 DEF Value, EntryOf
  <2>3. Watching(g, k) /\ Outcome(g) = out[g]
    BY <1>1, <1>4, CallWatches
  <2>4. None \in seen[g][k]
    BY <1>1, <2>2, <2>3 DEF IInv, SeenFits
  <2>5. \A j \in Keys : Value(j)' = Value(j)
    BY <1>1 DEF Value, EntryOf
  <2>6. QED  BY <1>1, <1>4, <2>1, <2>3, <2>4, <2>5, ReadStep
<1>5. QED  BY <1>2, <1>3, <1>4

\* What the holder of an entry reads there it may report.
LEMMA HolderReads ==
  ASSUME IInv, NEW g \in Goroutines, NEW k \in Keys, NEW e \in Entries, e = ent[g][k],
         pc[g] = "entry", call[g].op # "Store", ~Taken(g)
  PROVE  LET v == IF p[e] \in Values THEN p[e] ELSE None IN
           /\ Watching(g, k) /\ v \in seen[g][k] /\ v \in Values \cup {None}
           /\ Found(v) = Found(p[e]) /\ Outcome(g) = out[g]
<1>1. Watching(g, k)
  BY HolderWatches, SyncMapAssumption DEF IInv
<1>2. CASE Gone(e, k)
  BY <1>1, <1>2, SyncMapAssumption DEF IInv, GoneWasSeen, Outcome, Found
<1>3. CASE ~Gone(e, k)
  <2>1. Value(k) = IF p[e] \in Values THEN p[e] ELSE None
    BY <1>3, ValueAt
  <2>2. Value(k) \in seen[g][k]
    BY <1>1 DEF IInv, SeenFits
  <2>3. QED  BY <1>1, <2>1, <2>2, SyncMapAssumption DEF Outcome, Found
<1>4. QED  BY <1>2, <1>3

\* The pointer of an entry is written, at the end of a call, through an entry that
\* the maps have.
LEMMA FillRefines ==
  ASSUME NEW g \in Goroutines, Stepping(g), call' = call, call[g] # None,
         call[g].op \in {"Store", "LoadOrStore"}, NEW k \in Keys, k = call[g].key,
         NEW e \in Entries, ~Gone(e, k), pc[g] # "done", Fill(g, e),
         \/ p' = p /\ call[g].op = "LoadOrStore" /\ \A j \in Keys : Value(j)' = Value(j)
         \/ /\ UNCHANGED <<read, amended, dirty>> /\ p' = [p EXCEPT ![e] = call[g].val]
            /\ call[g].op = "LoadOrStore" => p[e] \notin Values
  PROVE  Refines
<1> IInv /\ TypeOK /\ CallsFit
  BY SteppingFacts
<1>1. Value(k) = IF p[e] \in Values THEN p[e] ELSE None
  BY ValueAt
<1>2. Outcome(g) = out[g] /\ out[g][k] = <<>>
  BY DEF Outcome, Taken, CallsFit, CallFits, Decided
<1>3. call[g].val \in Values
  BY CallTypes
<1>4. CASE call[g].op = "LoadOrStore" /\ p[e] \in Values
  <2>1. Finish(g, Found(p[e]))
    BY <1>4 DEF Fill
  <2>2. p' = p /\ \A j \in Keys : Value(j)' = Value(j)
    BY <1>4
  <2>3. Outcome(g)' = [out[g] EXCEPT ![k] = Found(p[e])]
    BY <2>1, FinishOutcome
  <2>4. Watching(g, k)
    BY <1>2, <1>4 DEF Watching, About
  <2>5. p[e] \in seen[g][k]
    BY <1>1, <1>4, <2>4 DEF IInv, SeenFits
  <2>6. p[e] # None /\ call[g].op # "Store" /\ call[g].op # "LoadAndDelete"
    BY <1>4, SyncMapAssumption
  <2>7. QED  BY <1>2, <1>4, <2>2, <2>3, <2>4, <2>5, <2>6, ReadStep
<1>5. CASE ~(call[g].op = "LoadOrStore" /\ p[e] \in Values)
  <2>1. Finish(g, <<call[g].val, FALSE>>) /\ p' = [p EXCEPT ![e] = call[g].val]
    BY <1>5 DEF Fill, SetP
  <2>2. UNCHANGED <<read, amended, dirty>>
    <3>1. CASE call[g].op = "Store"
      BY <3>1
    <3>2. CASE call[g].op = "LoadOrStore" /\ p' = p
      <4>1. p'[e] = call[g].val
        BY <2>1 DEF TypeOK
      <4>2. QED  BY <1>3, <1>5, <3>2, <4>1
    <3>3. QED  BY <3>1, <3>2
  <2>3. Outcome(g)' = [out[g] EXCEPT ![k] = <<call[g].val, FALSE>>]
    BY <2>1, FinishOutcome
  <2>4. \A j \in Keys : Value(j)' = IF j # k THEN Value(j) ELSE call[g].val
    <3>1. Uses(e, k) /\ call[g].val \in Values \cup {nil}
      BY <1>3 DEF Uses
    <3>2. \A j \in Keys : Value(j)' =
             IF j = k /\ ~Gone(e, k) THEN IF call[g].val \in Values THEN call[g].val ELSE None ELSE Value(j)
      BY <2>1, <2>2, <3>1, WriteValues
    <3>3. QED  BY <1>3, <3>2
  <2>5. call[g].op = "LoadOrStore" => Value(k) = None
    BY <1>1, <1>5
  <2>6. call[g].op # "LoadAndDelete"
    OBVIOUS
  <2>7. \A j \in Keys : Value(j)' =
           IF j # k THEN Value(j) ELSE IF call[g].op = "LoadAndDelete" THEN None ELSE call[g].val
    BY <2>4, <2>6
  <2>8. Outcome(g)' = [Outcome(g) EXCEPT ![k] =
           IF call[g].op = "LoadAndDelete" THEN <<Value(k), TRUE>> ELSE <<call[g].val, FALSE>>]
    BY <1>2, <2>3, <2>6
  <2>9. Outcome(g)[k] = <<>> /\ call[g].op \in {"Store", "LoadOrStore", "LoadAndDelete"}
    BY <1>2
  <2>10. call[g].op = "LoadAndDelete" => Value(k) # None
    BY <2>6
  <2>11. QED  BY <2>5, <2>7, <2>8, <2>9, <2>10, WriteStep
<1>6. QED  BY <1>4, <1>5

LEMMA AccessEntryRefines ==
  ASSUME NEW g \in Goroutines, Stepping(g), AccessEntry(g)
  PROVE  Refines
<1> IInv /\ TypeOK /\ CallsFit
  BY SteppingFacts
<1>1. PICK k \in Keys : k = call[g].key
  BY AccessEntryDoes
<1>2. PICK e \in Entries : e = ent[g][k]
  BY <1>1, AccessEntryDoes
<1>3. /\ pc[g] = "entry" /\ call[g] # None /\ UNCHANGED <<read, amended, dirty, call>> /\ e # None
      /\ call[g].op \in {"Load", "LoadAndDelete", "Store", "LoadOrStore"} /\ Uses(e, k)
  BY <1>1, <1>2, AccessEntryDoes, InCall, SyncMapAssumption DEF Uses
<1>4. ASSUME p' = p
      PROVE  \A j \in Keys : Value(j)' = Value(j)
  BY <1>3, <1>4 DEF Value, EntryOf
<1>5. ASSUME ~Taken(g), p' = p, Finish(g, Found(p[e])), call[g].op # "Store",
             call[g].op = "LoadOrStore" => p[e] \in Values,
             call[g].op = "LoadAndDelete" => p[e] \notin Values
      PROVE  Refines
  <2> DEFINE v == IF p[e] \in Values THEN p[e] ELSE None
  <2>1. /\ Watching(g, k) /\ v \in seen[g][k] /\ v \in Values \cup {None}
        /\ Found(v) = Found(p[e]) /\ Outcome(g) = out[g]
    BY <1>2, <1>3, <1>5, HolderReads
  <2>2. Outcome(g)' = [out[g] EXCEPT ![k] = Found(p[e])]
    BY <1>1, <1>5, FinishOutcome
  <2>3. call[g].op = "LoadOrStore" => v # None
    BY <1>5, SyncMapAssumption
  <2>4. call[g].op = "LoadAndDelete" => v = None
    BY <1>5
  <2> HIDE DEF v
  <2>5. QED  BY <1>3, <1>4, <1>5, <2>1, <2>2, <2>3, <2>4, ReadStep
<1>6. CASE call[g].op = "Load"
  <2>1. Finish(g, Found(p[e])) /\ p' = p /\ ~Taken(g)
    BY <1>1, <1>2, <1>6 DEF AccessEntry, Taken
  <2>2. QED  BY <1>5, <1>6, <2>1
<1>7. CASE call[g].op = "LoadAndDelete"
  <2>1. Finish(g, Found(p[e])) /\ IF p[e] \in Values THEN p' = [p EXCEPT ![e] = nil] ELSE p' = p
    BY <1>1, <1>2, <1>7 DEF AccessEntry, Delete, SetP
  <2>2. Outcome(g)' = [out[g] EXCEPT ![k] = Found(p[e])]
    BY <1>1, <2>1, FinishOutcome
  <2>3. Taken(g) <=> Gone(e, k) /\ p[e] \in Values
    BY <1>1, <1>2, <1>3, <1>7, TakenIsGone
  <2>4. CASE p[e] \notin Values
    BY <1>5, <1>7, <2>1, <2>3, <2>4
  <2>5. nil \notin Values
    BY SyncMapAssumption
  <2>6. CASE p[e] \in Values /\ Gone(e, k)
    <3>1. Outcome(g) = [out[g] EXCEPT ![k] = Found(p[e])]
      BY <1>1, <1>2, <2>3, <2>6 DEF Outcome
    <3>2. \A j \in Keys : Value(j)' = Value(j)
      BY <1>3, <2>1, <2>6, WriteValues
    <3>3. QED  BY <1>3, <2>2, <3>1, <3>2, StutterStep
  <2>7. CASE p[e] \in Values /\ ~Gone(e, k)
    <3>1. Value(k) = p[e] /\ p[e] # None /\ Found(p[e]) = <<p[e], TRUE>>
      BY <2>7, ValueAt, SyncMapAssumption DEF Found
    <3>2. \A j \in Keys : Value(j)' = IF j # k THEN Value(j) ELSE None
      BY <1>3, <2>1, <2>5, <2>7, WriteValues
    <3>3. Outcome(g) = out[g] /\ out[g][k] = <<>>
      BY <1>1, <1>2, <1>3, <1>7, <2>3, <2>7 DEF Outcome, CallsFit, CallFits, Decided
    <3>4. \A j \in Keys : Value(j)' =
             IF j # k THEN Value(j) ELSE IF call[g].op = "LoadAndDelete" THEN None ELSE call[g].val
      BY <1>7, <3>2
    <3>5. Outcome(g)' = [Outcome(g) EXCEPT ![k] =
             IF call[g].op = "LoadAndDelete" THEN <<Value(k), TRUE>> ELSE <<call[g].val, FALSE>>]
      BY <1>7, <2>2, <3>1, <3>3
    <3>6. Outcome(g)[k] = <<>> /\ Value(k) # None
      BY <3>1, <3>3
    <3>7. QED  BY <1>1, <1>3, <1>7, <3>4, <3>5, <3>6, WriteStep
  <2>8. QED  BY <2>4, <2>6, <2>7
<1>8. CASE call[g].op \in {"Store", "LoadOrStore"}
  <2>1. TryStore(g, e)
    BY <1>1, <1>2, <1>8 DEF AccessEntry
  <2>2. CASE p[e] = expunged
    <3>1. pc'[g] = "lock" /\ p' = p /\ out' = out
      BY <2>1, <2>2 DEF TryStore, Goto, TypeOK
    <3>2. QED  BY <1>3, <1>8, <3>1, QuietGoesOn
  <2>3. CASE p[e] # expunged
    <3>1. Fill(g, e)
      BY <2>1, <2>3 DEF TryStore
    <3>2. ~Gone(e, k)
      BY <1>2, <1>3, <1>8, <2>3 DEF IInv, HoldersFit, Gone
    <3>3. \/ p' = p /\ call[g].op = "LoadOrStore"
          \/ p' = [p EXCEPT ![e] = call[g].val] /\ (call[g].op = "LoadOrStore" => p[e] \notin Values)
      BY <1>8, <3>1 DEF Fill, SetP
    <3>4. QED  BY <1>1, <1>3, <1>4, <1>8, <3>1, <3>2, <3>3, FillRefines
  <2>4. QED  BY <2>2, <2>3
<1>9. QED  BY <1>3, <1>6, <1>7, <1>8

LEMMA LoadLockedRefines ==
  ASSUME NEW g \in Goroutines, Stepping(g), LoadLocked(g)
  PROVE  Refines
<1> IInv /\ TypeOK /\ CallsFit
  BY SteppingFacts
<1> DEFINE missed == read[call[g].key] = None /\ amended
<1>1. PICK k \in Keys : k = call[g].key
  BY LoadLockedDoes
<1>2. PICK e \in Entry0 : e = IF missed THEN dirty[k] ELSE read[k]
  BY <1>1, LoadLockedDoes
<1>3. /\ pc[g] = "lock" /\ call[g].op \in {"Load", "LoadAndDelete"} /\ UNCHANGED <<p, call>>
      /\ ent'[g] = Only(k, e) /\ (e # None => pc'[g] = "entry")
      /\ missed => Misses(g, Dropped(g))
      /\ ~missed => UNCHANGED <<read, amended, dirty>>
      /\ IF e = None THEN Finish(g, Found(None)) ELSE out' = out
  BY <1>1, <1>2, LoadLockedDoes
<1>4. call[g] # None /\ Outcome(g) = out[g] /\ out[g][k] = <<>> /\ Watching(g, k)
  <2>1. call[g] # None
    BY <1>3, InCall
  <2>2. Watching(g, k) /\ Outcome(g) = out[g]
    BY <1>1, <1>3, <2>1, CallWatches
  <2>3. QED  BY <2>1, <2>2 DEF Watching
<1>5. ent'[g][k] = e
  BY <1>3 DEF Only, NoEntries
<1>6. missed => dirty \in [Keys -> Entry0]
  BY DEF MissesFit, IInv, TypeOK
<1>7. missed => \A j \in Keys : Value(j)' = IF Dropped(g)[j] = dirty[j] THEN Value(j) ELSE None
  BY <1>3, MissValues
<1>8. CASE e # None /\ ~missed
  BY <1>1, <1>2, <1>3, <1>5, <1>8, QuietGoesOn
<1>9. CASE e # None /\ missed /\ call[g].op = "Load"
  <2>1. \A j \in Keys : Value(j)' = Value(j)
    BY <1>7, <1>9 DEF Dropped
  <2>2. Outcome(g)' = Outcome(g)
    BY <1>3, <1>4, <1>9, NotTakenNext
  <2>3. QED  BY <1>3, <2>1, <2>2, StutterStep
<1>10. CASE e # None /\ missed /\ call[g].op = "LoadAndDelete"
  <2>1. e = dirty[k] /\ p[e] \in Values /\ e \in Entries
    BY <1>1, <1>2, <1>10, SyncMapAssumption DEF IInv, DirtyHasValues, Has, MissesFit, Entry0
  <2>2. Value(k) = p[e] /\ p[e] # None /\ Found(p[e]) = <<Value(k), TRUE>>
    BY <1>1, <1>10, <2>1, SyncMapAssumption DEF Value, EntryOf, Found
  <2>3. \A j \in Keys : Value(j)' = IF j # k THEN Value(j) ELSE None
    BY <1>1, <1>6, <1>7, <1>10, <2>1 DEF Dropped
  <2>4. Taken(g)'
    <3>1. EntryOf(k)' # e
      BY <1>3, <1>10, <2>1, <2>2, <2>3 DEF Value
    <3>2. QED  BY <1>1, <1>3, <1>5, <1>10, <2>1, <3>1 DEF Taken
  <2>5. Outcome(g)' = [out[g] EXCEPT ![k] = <<Value(k), TRUE>>]
    BY <1>1, <1>3, <1>5, <1>10, <2>2, <2>4 DEF Outcome
  <2>6. Outcome(g)' = [Outcome(g) EXCEPT ![k] =
           IF call[g].op = "LoadAndDelete" THEN <<Value(k), TRUE>> ELSE <<call[g].val, FALSE>>]
    BY <1>4, <1>10, <2>5
  <2>7. \A j \in Keys : Value(j)' =
           IF j # k THEN Value(j) ELSE IF call[g].op = "LoadAndDelete" THEN None ELSE call[g].val
    BY <1>10, <2>3
  <2>8. Outcome(g)[k] = <<>> /\ Value(k) # None /\ call' = call
    BY <1>3, <1>4, <2>2
  <2>9. QED  BY <1>1, <1>4, <1>10, <2>6, <2>7, <2>8, WriteStep
<1>11. CASE e = None
  <2>1. Outcome(g)' = [Outcome(g) EXCEPT ![k] = Found(None)]
    BY <1>1, <1>3, <1>4, <1>11, FinishOutcome
  <2>2. Value(k) = None
    BY <1>1, <1>2, <1>11 DEF Value, EntryOf
  <2>3. None \in seen[g][k]
    BY <1>4, <2>2 DEF IInv, SeenFits
  <2>4. \A j \in Keys : Value(j)' = Value(j)
    <3>1. CASE missed
      BY <1>1, <1>2, <1>6, <1>7, <1>11, <3>1 DEF Dropped
    <3>2. CASE ~missed
      BY <1>3, <3>2 DEF Value, EntryOf
    <3>3. QED  BY <3>1, <3>2
  <2>5. QED  BY <1>3, <1>4, <2>1, <2>3, <2>4, ReadStep
<1>12. QED  BY <1>3, <1>8, <1>9, <1>10, <1>11

\* The maps change, and their values do not: to expunge an entry, and the reverse.
LEMMA SameValues ==
  ASSUME IInv, \A k \in Keys : EntryOf(k)' = EntryOf(k),
         \A e \in Entries : p'[e] = p[e] \/ {p[e], p'[e]} = {nil, expunged}
  PROVE  \A k \in Keys : Value(k)' = Value(k)
<1>1. \A k \in Keys : EntryOf(k) = None \/ EntryOf(k) \in Entries
  BY EntryTypes DEF Entry0
<1>2. nil \notin Values /\ expunged \notin Values
  BY SyncMapAssumption
<1>3. QED  BY <1>1, <1>2 DEF Value

LEMMA StoreInReadRefines ==
  ASSUME NEW g \in Goroutines, Stepping(g), StoreLocked(g), StoreInRead(g)
  PROVE  Refines
<1> IInv /\ TypeOK /\ CallsFit
  BY SteppingFacts
<1>1. /\ pc[g] = "lock" /\ call[g].op \in {"Store", "LoadOrStore"} /\ call' = call
  BY StoreLockedWays
<1>2. PICK k \in Keys : k = call[g].key
  BY <1>1, InCall
<1>3. PICK e \in Entries : e = read[k]
  BY <1>2 DEF StoreInRead, TypeOK, Entry0
<1>4. /\ read' = read /\ amended' = amended /\ out' = out /\ pc'[g] = "locked" /\ read[k] # None
      /\ IF p[e] = expunged THEN p' = [p EXCEPT ![e] = nil] /\ dirty' = [dirty EXCEPT ![k] = e]
                            ELSE p' = p /\ dirty' = dirty
  BY <1>2, <1>3 DEF StoreInRead, Unexpunge, SetP, Goto, TypeOK
<1>5. \A j \in Keys : EntryOf(j)' = EntryOf(j)
  <2>1. ASSUME NEW j \in Keys, read[j] = None, amended
        PROVE  dirty'[j] = dirty[j]
    <3>1. dirty \in [Keys -> Entry0]
      BY <2>1 DEF IInv, MissesFit, TypeOK
    <3>2. QED  BY <1>4, <2>1, <3>1
  <2>2. QED  BY <1>4, <2>1 DEF EntryOf
<1>6. \A x \in Entries : p'[x] = p[x] \/ {p[x], p'[x]} = {nil, expunged}
  BY <1>4 DEF TypeOK
<1>7. \A j \in Keys : Value(j)' = Value(j)
  BY <1>5, <1>6, SameValues
<1>8. Outcome(g)' = Outcome(g)
  BY <1>1, <1>4, NotTaken, NotTakenNext
<1>9. QED  BY <1>1, <1>7, <1>8, StutterStep

LEMMA MakeDirtyRefines ==
  ASSUME NEW g \in Goroutines, Stepping(g), StoreLocked(g), MakeDirty(g)
  PROVE  Refines
<1> IInv /\ TypeOK /\ CallsFit
  BY SteppingFacts
<1>1. /\ pc[g] = "lock" /\ call[g].op \in {"Store", "LoadOrStore"} /\ call' = call
      /\ ~amended /\ UNCHANGED <<read, amended, p, out>> /\ pc'[g] = "expunge"
  BY StoreLockedWays DEF MakeDirty, Goto, TypeOK
<1>2. \A j \in Keys : Value(j)' = Value(j)
  BY <1>1 DEF Value, EntryOf
<1>3. Outcome(g)' = Outcome(g)
  BY <1>1, NotTaken, NotTakenNext
<1>4. QED  BY <1>1, <1>2, <1>3, StutterStep

LEMMA ExpungeRefines ==
  ASSUME NEW g \in Goroutines, Stepping(g), Expunge(g)
  PROVE  Refines
<1> IInv /\ TypeOK /\ CallsFit
  BY SteppingFacts
<1>1. /\ pc[g] = "expunge" /\ UNCHANGED <<read, amended, call, pc, out>> /\ ~amended
  BY DEF Expunge, IInv, DirtyInTheMaking
<1>2. \A j \in Keys : EntryOf(j)' = EntryOf(j)
  BY <1>1 DEF EntryOf
<1>3. \A x \in Entries : p'[x] = p[x] \/ {p[x], p'[x]} = {nil, expunged}
  <2>1. PICK k \in Keys : LET e == ent[g][k] IN
          e # None /\ IF p[e] = nil THEN SetP(e, expunged) ELSE UNCHANGED p
    BY DEF Expunge
  <2>2. ent[g][k] \in Entries
    BY <2>1 DEF TypeOK, Entry0
  <2>3. QED  BY <2>1, <2>2 DEF SetP, TypeOK
<1>4. \A j \in Keys : Value(j)' = Value(j)
  BY <1>2, <1>3, SameValues
<1>5. Outcome(g)' = Outcome(g)
  BY <1>1, NotTaken, NotTakenNext
<1>6. QED  BY <1>1, <1>4, <1>5, StutterStep

LEMMA StoreInDirtyRefines ==
  ASSUME NEW g \in Goroutines, Stepping(g), StoreLocked(g), StoreInDirty(g)
  PROVE  Refines
<1> IInv /\ TypeOK /\ CallsFit
  BY SteppingFacts
<1>1. PICK k \in Keys : k = call[g].key
  BY StoreInDirtyDoes
<1>2. PICK e \in Entries : e = dirty[k]
  BY <1>1, StoreInDirtyDoes
<1>3. /\ pc[g] = "lock" /\ call[g].op \in {"Store", "LoadOrStore"} /\ call' = call
      /\ Has(dirty, k) /\ Fill(g, e)
      /\ \/ p' = p /\ call[g].op = "LoadOrStore" /\ Misses(g, dirty)
         \/ call[g].op = "Store" /\ Writes(g, e, call[g].val)
  BY <1>1, <1>2, StoreLockedWays, StoreInDirtyDoes
<1>4. ~Gone(e, k) /\ call[g] # None
  BY <1>2, <1>3, InCall DEF Gone, Has
<1>5. \/ p' = p /\ call[g].op = "LoadOrStore" /\ \A j \in Keys : Value(j)' = Value(j)
      \/ /\ UNCHANGED <<read, amended, dirty>> /\ p' = [p EXCEPT ![e] = call[g].val]
         /\ call[g].op = "LoadOrStore" => p[e] \notin Values
  <2>1. Misses(g, dirty) => \A j \in Keys : Value(j)' = Value(j)
    BY MissValues
  <2>2. QED  BY <1>3, <2>1 DEF Writes
<1>6. QED  BY <1>1, <1>3, <1>4, <1>5, FillRefines

LEMMA FillLockedRefines ==
  ASSUME NEW g \in Goroutines, Stepping(g), FillLocked(g)
  PROVE  Refines
<1> IInv /\ TypeOK /\ CallsFit
  BY SteppingFacts
<1>1. pc[g] = "locked"
  BY FillLockedDoes
<1>2. call[g] # None /\ call[g].op \in {"Store", "LoadOrStore"}
  BY <1>1, InCall
<1>3. PICK k \in Keys : k = call[g].key
  BY <1>1, InCall
<1>4. PICK e \in Entries : e = read[k]
  BY <1>3, FillLockedDoes
<1>5. /\ Fill(g, e) /\ UNCHANGED <<read, amended, dirty, call>>
      /\ p' = p \/ (Writes(g, e, call[g].val) /\ (call[g].op = "LoadOrStore" => p[e] \notin Values))
  BY <1>3, <1>4, FillLockedDoes
<1>6. \/ p' = p /\ call[g].op = "LoadOrStore" /\ \A j \in Keys : Value(j)' = Value(j)
      \/ /\ UNCHANGED <<read, amended, dirty>> /\ p' = [p EXCEPT ![e] = call[g].val]
         /\ call[g].op = "LoadOrStore" => p[e] \notin Values
  <2>1. CASE call[g].op = "LoadOrStore" /\ p[e] \in Values
    <3>1. p' = p
      BY <1>5, <2>1
    <3>2. QED  BY <1>5, <2>1, <3>1 DEF Value, EntryOf
  <2>2. CASE ~(call[g].op = "LoadOrStore" /\ p[e] \in Values)
    BY <1>5, <2>2 DEF Fill, SetP
  <2>3. QED  BY <2>1, <2>2
<1>7. ~Gone(e, k)
  BY <1>4 DEF Gone
<1>8. QED  BY <1>1, <1>2, <1>3, <1>5, <1>6, <1>7, FillRefines

\* A key that the maps do not have goes into them.
LEMMA InsertRefines ==
  ASSUME NEW g \in Goroutines, Stepping(g), (StoreLocked(g) /\ StoreNew(g)) \/ Publish(g)
  PROVE  Refines
<1> IInv /\ TypeOK /\ CallsFit
  BY SteppingFacts
<1>1. /\ Inserts(g) /\ Finish(g, <<call[g].val, FALSE>>) /\ call' = call
      /\ call[g].op \in {"Store", "LoadOrStore"} /\ pc[g] \in {"lock", "expunge"}
  BY NewKeyInserts
<1>2. PICK k \in Keys : k = call[g].key
  BY <1>1, InCall
<1>3. Value(k) = None /\ \A j \in Keys : Value(j)' = IF j = k THEN call[g].val ELSE Value(j)
  BY <1>1, <1>2, InsertValues
<1>4. Outcome(g)' = [out[g] EXCEPT ![k] = <<call[g].val, FALSE>>]
  BY <1>1, <1>2, FinishOutcome
<1>5. call[g] # None /\ Outcome(g) = out[g] /\ out[g][k] = <<>>
  BY <1>1, <1>2, InCall, NotTaken DEF CallsFit, CallFits, Decided
<1>6. /\ Outcome(g)[k] = <<>> /\ call[g].op # "LoadAndDelete"
      /\ call[g].op \in {"Store", "LoadOrStore", "LoadAndDelete"}
  BY <1>1, <1>5
<1>7. \A j \in Keys : Value(j)' =
         IF j # k THEN Value(j) ELSE IF call[g].op = "LoadAndDelete" THEN None ELSE call[g].val
  BY <1>3, <1>6
<1>8. Outcome(g)' = [Outcome(g) EXCEPT ![k] =
         IF call[g].op = "LoadAndDelete" THEN <<Value(k), TRUE>> ELSE <<call[g].val, FALSE>>]
  BY <1>4, <1>5, <1>6
<1>9. QED  BY <1>1, <1>2, <1>3, <1>5, <1>6, <1>7, <1>8, WriteStep

\* Range says at once which keys the map does not have.
LEMMA VisitRefines ==
  ASSUME NEW g \in Goroutines, Stepping(g), call' = call, call[g] # None, call[g].op = "Range",
         pc[g] \in {"read", "lock"}, NEW m, Visit(g, m), \A k \in Keys : Value(k)' = Value(k),
         \A k \in Keys : m[k] = None => Value(k) = None
  PROVE  Refines
<1> IInv /\ TypeOK /\ CallsFit /\ Remember
  BY SteppingFacts
<1> DEFINE ks == {k \in Keys : m[k] = None}
           f == [k \in ks |-> None]
<1>1. Outcome(g)' = [k \in Keys |-> IF m[k] = None THEN Found(None) ELSE <<>>]
  BY NotTakenNext DEF Visit, TypeOK
<1>2. ASSUME NEW k \in Keys
      PROVE  Watching(g, k) /\ Outcome(g)[k] = <<>> /\ Value(k) \in seen[g][k]
  <2>1. Watching(g, k)
    BY CallWatches
  <2>2. QED  BY <2>1 DEF Watching, IInv, SeenFits
<1>3. Promise!Found(None) = Found(None)
  BY SyncMapAssumption DEF Found, Promise!Found
<1>4. /\ ks \in SUBSET Keys /\ f \in [ks -> Values \cup {None}]
      /\ \A k \in ks : Watching(g, k) /\ f[k] \in seen[g][k]
  BY <1>2
<1>5. Outcome(g)' = [k \in Keys |-> IF k \in ks THEN Promise!Found(f[k]) ELSE Outcome(g)[k]]
  BY <1>1, <1>2, <1>3
<1>6. \A h \in Goroutines \ {g} : Outcome(h)' = Outcome(h)
  BY SteppingFacts
<1>7. call[g].op # "Store" /\ call[g].op # "LoadOrStore" /\ call[g].op # "LoadAndDelete"
  OBVIOUS
<1> HIDE DEF f, ks
<1>8. QED  BY <1>4, <1>5, <1>6, <1>7, ReadsSome DEF Refines

LEMMA RangeReadRefines ==
  ASSUME NEW g \in Goroutines, Stepping(g), RangeRead(g)
  PROVE  Refines
<1> IInv /\ TypeOK /\ CallsFit
  BY SteppingFacts
<1>1. /\ pc[g] = "read" /\ call[g].op = "Range" /\ call[g] # None
      /\ UNCHANGED <<read, amended, dirty, p, call>>
  BY InCall DEF RangeRead, map
<1>2. CASE amended
  <2>1. out' = out /\ pc'[g] = "lock"
    BY <1>2 DEF RangeRead, Goto, TypeOK
  <2>2. QED  BY <1>1, <2>1, QuietGoesOn
<1>3. CASE ~amended
  <2>1. Visit(g, read)
    BY <1>3 DEF RangeRead
  <2>2. \A k \in Keys : Value(k)' = Value(k) /\ (read[k] = None => Value(k) = None)
    BY <1>1, <1>3 DEF Value, EntryOf
  <2>3. QED  BY <1>1, <2>1, <2>2, VisitRefines
<1>4. QED  BY <1>2, <1>3

LEMMA RangeLockedRefines ==
  ASSUME NEW g \in Goroutines, Stepping(g), RangeLocked(g)
  PROVE  Refines
<1> IInv /\ TypeOK /\ CallsFit
  BY SteppingFacts
<1>1. /\ pc[g] = "lock" /\ call[g].op = "Range" /\ call[g] # None /\ UNCHANGED <<p, call>>
      /\ Visit(g, read') /\ amended' = FALSE
  BY InCall DEF RangeLocked, Promote
<1>2. \A k \in Keys : Value(k)' = Value(k)
  <2>1. CASE amended
    BY <2>1, RangeLockedDoes, MissValues
  <2>2. CASE ~amended
    BY <1>1, <2>2, RangeLockedDoes DEF Value, EntryOf
  <2>3. QED  BY <2>1, <2>2
<1>3. \A k \in Keys : read'[k] = None => Value(k) = None
  <2>1. \A k \in Keys : read'[k] = None => Value(k)' = None
    BY <1>1 DEF Value, EntryOf
  <2>2. QED  BY <1>2, <2>1
<1>4. QED  BY <1>1, <1>2, <1>3, VisitRefines

LEMMA RangeEntryRefines ==
  ASSUME NEW g \in Goroutines, Stepping(g), RangeEntry(g)
  PROVE  Refines
<1> IInv /\ TypeOK /\ CallsFit
  BY SteppingFacts
<1>1. /\ pc[g] = "entry" /\ call[g].op = "Range" /\ call[g] # None
      /\ UNCHANGED <<read, amended, dirty, p, call>>
  BY InCall DEF RangeEntry, map
<1>2. PICK k \in Keys : ent[g][k] # None /\ out' = [out EXCEPT ![g][k] = Found(p[ent[g][k]])]
  BY DEF RangeEntry
<1>3. PICK e \in Entries : e = ent[g][k]
  BY <1>2 DEF TypeOK, Entry0
<1> DEFINE v == IF p[e] \in Values THEN p[e] ELSE None
<1>4. ~Taken(g)
  BY <1>1 DEF Taken
<1>5. /\ Watching(g, k) /\ v \in seen[g][k] /\ v \in Values \cup {None}
      /\ Found(v) = Found(p[e]) /\ Outcome(g) = out[g]
  BY <1>1, <1>3, <1>4, HolderReads
<1>6. Outcome(g)' = [Outcome(g) EXCEPT ![k] = Found(v)]
  <2>1. Outcome(g)' = out'[g]
    BY <1>1, NotTakenNext
  <2>2. QED  BY <1>2, <1>3, <1>5, <2>1 DEF TypeOK
<1>7. \A j \in Keys : Value(j)' = Value(j)
  BY <1>1 DEF Value, EntryOf
<1>8. call[g].op # "Store" /\ call[g].op # "LoadOrStore" /\ call[g].op # "LoadAndDelete"
  BY <1>1
<1> HIDE DEF v
<1>9. QED  BY <1>1, <1>5, <1>6, <1>7, <1>8, ReadStep

LEMMA NextRefines ==
  ASSUME IInv, IInv', [Next]_vars
  PROVE  [Promise!Next]_(Promise!vars)
<1>1. CASE UNCHANGED vars
  BY <1>1 DEF vars, map, Promise!vars, Value, EntryOf, Outcome, Taken
<1>2. CASE Next
  <2>1. PICK g \in Goroutines : Step(g)
    BY <1>2 DEF Next
  <2>2. Stepping(g)
    BY <1>2, <2>1, StepMaps DEF Next, Stepping
  <2>3. CASE Begin(g) \/ Return(g) \/ LoadRead(g) \/ AccessEntry(g)
    BY <2>2, <2>3, BeginRefines, ReturnRefines, LoadReadRefines, AccessEntryRefines DEF Refines
  <2>4. CASE LoadLocked(g) \/ FillLocked(g) \/ Expunge(g) \/ Publish(g)
    BY <2>2, <2>4, LoadLockedRefines, FillLockedRefines, ExpungeRefines, InsertRefines DEF Refines
  <2>5. CASE StoreLocked(g)
    BY <2>2, <2>5, StoreLockedWays, StoreInReadRefines, StoreInDirtyRefines, InsertRefines,
       MakeDirtyRefines DEF Refines
  <2>6. CASE RangeRead(g) \/ RangeLocked(g) \/ RangeEntry(g)
    BY <2>2, <2>6, RangeReadRefines, RangeLockedRefines, RangeEntryRefines DEF Refines
  <2>7. QED  BY <2>1, <2>3, <2>4, <2>5, <2>6 DEF Step
<1>3. QED  BY <1>1, <1>2

LEMMA InitRefines == Init => Promise!Init
<1> SUFFICES ASSUME Init PROVE Promise!Init
  OBVIOUS
<1>1. [k \in Keys |-> Value(k)] = [k \in Keys |-> None]
  BY DEF Init, NoEntries, Value, EntryOf
<1>2. [g \in Goroutines |-> Outcome(g)] = [g \in Goroutines |-> Promise!NoOut]
  BY DEF Init, Outcome, Taken, Promise!NoOut
<1>3. QED  BY <1>1, <1>2 DEF Init, Promise!Init

\* sync.Map is linearizable: every call takes effect, or was right about what it
\* returns, at a moment between its beginning and its end, for all numbers of
\* goroutines, keys, values and entries.
THEOREM Refinement == Spec => ImplementsAtomicMap
BY Invariance, InitRefines, NextRefines, PTL DEF Spec, Promise!Spec, ImplementsAtomicMap

=============================================================================
