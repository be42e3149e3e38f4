------------------------------- MODULE SyncMap -------------------------------
(***************************************************************************)
(* sync.Map (sync/map.go): a read-only map that is replaced as a whole,    *)
(* the dirty map that collects new keys under the mutex mu, and entries    *)
(* shared by both, whose pointers change without the mutex.                *)
(*                                                                         *)
(* One step is one access to m.read or to the pointer of an entry.  What   *)
(* only the holder of mu can see goes with it, and a compare-and-swap loop *)
(* is one step, since nothing that was read survives a failed attempt.     *)
(***************************************************************************)
EXTENDS Naturals, FiniteSets

CONSTANTS Goroutines, Keys, Values,
          Entries,        \* bound: entries allocated at the same time
          Calls,          \* Calls[g]: the calls that g makes: [op, key, val]
          None, nil, expunged

Ops == {"Load", "Store", "LoadOrStore", "LoadAndDelete", "Range"}

ASSUME SyncMapAssumption ==
  /\ Calls \in [Goroutines -> SUBSET [op : Ops, key : Keys, val : Values]]
  /\ \A g \in Goroutines : None \notin Calls[g]
  /\ Values \cap {None, nil, expunged} = {} /\ nil # expunged
  /\ None \notin Entries \cup Goroutines /\ nil \notin [Keys -> Entries \cup {None}]
  /\ IsFiniteSet(Keys)

VARIABLES read,      \* read[k]: the entry of k in m.read, or None
          amended,   \* m.read's amended
          dirty,     \* the same for m.dirty, or nil
          misses,
          p,         \* p[e]: the pointer of entry e: a value, nil or expunged
          mu,        \* the holder of m.mu, or None
          call,      \* call[g]: the call g is in, or None
          pc,        \* control point of each goroutine
          ent,       \* ent[g][k]: the entry of k that g has in a local variable, or None
          out,       \* out[g][k]: <<value, loaded>>, what the call says of k, or <<>>
          seen       \* history, as in AtomicMap: the values of k since the call began

map == <<read, amended, dirty, misses, p>>
vars == <<map, mu, call, pc, ent, out, seen>>

Entry0 == Entries \cup {None}
NoEntries == [k \in Keys |-> None]
Results == (Values \cup {None}) \X BOOLEAN
PCs == {"idle",
        "read",     \* about to load m.read
        "entry",    \* about to access the pointer of an entry
        "lock",     \* about to lock mu
        "locked",   \* holds mu, about to access the pointer of an entry
        "expunge",  \* holds mu, in dirtyLocked; ent: the entries still to visit
        "done"}

TypeOK ==
  /\ read \in [Keys -> Entry0] /\ amended \in BOOLEAN
  /\ dirty \in [Keys -> Entry0] \cup {nil}
  /\ misses \in 0 .. Cardinality(Keys)
  /\ p \in [Entries -> Values \cup {nil, expunged}]
  /\ mu \in Goroutines \cup {None}
  /\ call \in [Goroutines -> [op : Ops, key : Keys, val : Values] \cup {None}]
  /\ \A g \in Goroutines : call[g] \in Calls[g] \cup {None}
  /\ pc \in [Goroutines -> PCs]
  /\ ent \in [Goroutines -> [Keys -> Entry0]]
  /\ out \in [Goroutines -> [Keys -> Results \cup {<<>>}]]

Init ==
  /\ read = NoEntries /\ amended = FALSE /\ dirty = nil /\ misses = 0
  /\ p = [e \in Entries |-> nil]
  /\ mu = None
  /\ call = [g \in Goroutines |-> None]
  /\ pc = [g \in Goroutines |-> "idle"]
  /\ ent = [g \in Goroutines |-> NoEntries]
  /\ out = [g \in Goroutines |-> [k \in Keys |-> <<>>]]
  /\ seen = [g \in Goroutines |-> [k \in Keys |-> {}]]

Goto(g, label) == pc' = [pc EXCEPT ![g] = label]
Hold(g, m) == ent' = [ent EXCEPT ![g] = m]
Only(k, e) == [NoEntries EXCEPT ![k] = e]
Found(v) == IF v \in Values THEN <<v, TRUE>> ELSE <<None, FALSE>>
\* The only key of the call has the result r, and the call is over.
Finish(g, r) ==
  /\ out' = [out EXCEPT ![g][call[g].key] = r]
  /\ Hold(g, NoEntries) /\ Goto(g, "done")

Has(m, k) == m # nil /\ m[k] # None
Size(m) == Cardinality({k \in Keys : m[k] # None})
SetP(e, v) == p' = [p EXCEPT ![e] = v]

-----------------------------------------------------------------------------
\* A call, and its return.
Begin(g) ==
  /\ pc[g] = "idle"
  /\ \E c \in Calls[g] : call' = [call EXCEPT ![g] = c]
  /\ Goto(g, "read")
  /\ UNCHANGED <<map, mu, ent, out>>

Return(g) ==
  /\ pc[g] = "done"
  /\ Goto(g, "idle")
  /\ call' = [call EXCEPT ![g] = None]
  /\ out' = [out EXCEPT ![g] = [k \in Keys |-> <<>>]]
  /\ UNCHANGED <<map, mu, ent>>

\* m.read.Load, and the lookup of the key.
LoadRead(g) ==
  /\ pc[g] = "read" /\ call[g].op # "Range"
  /\ LET k == call[g].key IN
       IF read[k] # None
         THEN Hold(g, Only(k, read[k])) /\ Goto(g, "entry") /\ UNCHANGED out
       ELSE IF amended \/ call[g].op \in {"Store", "LoadOrStore"}
         THEN Goto(g, "lock") /\ UNCHANGED <<ent, out>>
         ELSE Finish(g, Found(None))
  /\ UNCHANGED <<map, mu, call>>

\* tryStore and tryLoadOrStore on an entry that is not expunged, storeLocked.
Fill(g, e) ==
  IF call[g].op = "LoadOrStore" /\ p[e] \in Values
    THEN Finish(g, Found(p[e])) /\ UNCHANGED p
    ELSE Finish(g, <<call[g].val, FALSE>>) /\ SetP(e, call[g].val)

\* tryStore, tryLoadOrStore: an expunged entry is left alone.
TryStore(g, e) ==
  IF p[e] = expunged
    THEN Goto(g, "lock") /\ Hold(g, NoEntries) /\ UNCHANGED <<p, out>>
    ELSE Fill(g, e)

\* entry.delete.
Delete(g, e) ==
  /\ IF p[e] \in Values THEN SetP(e, nil) ELSE UNCHANGED p
  /\ Finish(g, Found(p[e]))

\* The pointer of the entry, without mu.
AccessEntry(g) ==
  /\ pc[g] = "entry" /\ call[g].op # "Range"
  /\ LET e == ent[g][call[g].key] IN
       CASE call[g].op = "Load" -> Finish(g, Found(p[e])) /\ UNCHANGED p
         [] call[g].op = "LoadAndDelete" -> Delete(g, e)
         [] OTHER -> TryStore(g, e)
  /\ UNCHANGED <<read, amended, dirty, misses, mu, call>>

-----------------------------------------------------------------------------
\* The dirty map d becomes m.read.
Promote(d) == read' = d /\ amended' = FALSE /\ dirty' = nil /\ misses' = 0

\* missLocked, with the dirty map d.
MissLocked(d) ==
  IF misses + 1 < Size(d)
    THEN misses' = misses + 1 /\ dirty' = d /\ UNCHANGED <<read, amended>>
    ELSE Promote(d)

\* Mutation: the key is looked up in m.dirty without a second look at m.read.
LoadLockedOnce(g) ==
  /\ pc[g] = "lock" /\ mu = None /\ call[g].op \in {"Load", "LoadAndDelete"}
  /\ IF amended THEN MissLocked(dirty) ELSE UNCHANGED <<read, amended, dirty, misses>>
  /\ LET k == call[g].key IN
       IF Has(dirty, k) THEN Hold(g, Only(k, dirty[k])) /\ Goto(g, "entry") /\ UNCHANGED out
                        ELSE Finish(g, Found(None))
  /\ UNCHANGED <<p, mu, call>>

\* Load, LoadAndDelete: what they do under mu.
LoadLocked(g) ==
  /\ pc[g] = "lock" /\ mu = None /\ call[g].op \in {"Load", "LoadAndDelete"}
  /\ LET k == call[g].key
         missed == read[k] = None /\ amended
         e == IF missed THEN dirty[k] ELSE read[k]
     IN /\ IF missed
             THEN MissLocked(IF call[g].op = "LoadAndDelete" THEN [dirty EXCEPT ![k] = None] ELSE dirty)
             ELSE UNCHANGED <<read, amended, dirty, misses>>
        /\ IF e = None
             THEN Finish(g, Found(None))
             ELSE Hold(g, Only(k, e)) /\ Goto(g, "entry") /\ UNCHANGED out
  /\ UNCHANGED <<p, mu, call>>

Live == {read[k] : k \in Keys} \cup {ent[g][k] : g \in Goroutines, k \in Keys}
          \cup (IF dirty = nil THEN {} ELSE {dirty[k] : k \in Keys})

\* A new entry in the dirty map d; unlock.
Insert(g, d) ==
  LET e == CHOOSE x \in Entries : x \notin Live
  IN  /\ ~(Entries \subseteq Live)
      /\ dirty' = [d EXCEPT ![call[g].key] = e]
      /\ SetP(e, call[g].val)
      /\ Finish(g, <<call[g].val, FALSE>>)

\* unexpungeLocked: an expunged entry gets back into the dirty map.
Unexpunge(k, e) ==
  IF p[e] = expunged
    THEN SetP(e, nil) /\ dirty' = [dirty EXCEPT ![k] = e]
    ELSE UNCHANGED <<p, dirty>>

\* Store, LoadOrStore: mu is locked and the key is looked up again in m.read, then
\* in m.dirty; a key that neither has makes a dirty map, if there is none.
StoreLocked(g) ==
  /\ pc[g] = "lock" /\ mu = None /\ call[g].op \in {"Store", "LoadOrStore"}
  /\ LET k == call[g].key IN
       \/ /\ read[k] # None
          /\ Unexpunge(k, read[k])
          /\ mu' = g /\ Hold(g, Only(k, read[k])) /\ Goto(g, "locked")
          /\ UNCHANGED <<read, amended, misses, out>>
       \/ /\ read[k] = None /\ Has(dirty, k)
          /\ Fill(g, dirty[k])
          /\ IF call[g].op = "LoadOrStore" THEN MissLocked(dirty) ELSE UNCHANGED <<read, amended, dirty, misses>>
          /\ UNCHANGED mu
       \/ /\ read[k] = None /\ ~Has(dirty, k) /\ amended
          /\ Insert(g, dirty)
          /\ UNCHANGED <<read, amended, misses, mu>>
       \/ /\ read[k] = None /\ ~Has(dirty, k) /\ ~amended
          /\ mu' = g /\ Goto(g, "expunge")
          /\ IF dirty = nil THEN dirty' = NoEntries /\ Hold(g, read)
                            ELSE UNCHANGED dirty /\ Hold(g, NoEntries)
          /\ UNCHANGED <<read, amended, misses, p, out>>
  /\ UNCHANGED call

\* storeLocked, or tryLoadOrStore, on an entry of m.read; unlock.
FillLocked(g) ==
  /\ pc[g] = "locked"
  /\ Fill(g, ent[g][call[g].key])
  /\ mu' = None
  /\ UNCHANGED <<read, amended, dirty, misses, call>>

\* Mutation: every entry that holds no value is left out, and not marked.
ExpungeUnmarked(g) ==
  /\ pc[g] = "expunge"
  /\ \E k \in Keys :
       LET e == ent[g][k] IN
         /\ e # None
         /\ dirty' = IF p[e] \in Values THEN [dirty EXCEPT ![k] = e] ELSE dirty
         /\ Hold(g, [ent[g] EXCEPT ![k] = None])
  /\ UNCHANGED <<read, amended, misses, p, mu, call, pc, out>>

\* dirtyLocked, tryExpungeLocked: the next entry of m.read, in any order.
Expunge(g) ==
  /\ pc[g] = "expunge"
  /\ \E k \in Keys :
       LET e == ent[g][k] IN
         /\ e # None
         /\ IF p[e] = nil THEN SetP(e, expunged) ELSE UNCHANGED p
         /\ dirty' = IF p[e] \in Values THEN [dirty EXCEPT ![k] = e] ELSE dirty
         /\ Hold(g, [ent[g] EXCEPT ![k] = None])
  /\ UNCHANGED <<read, amended, misses, mu, call, pc, out>>

\* m.read becomes amended, the new key is entered; unlock.
Publish(g) ==
  /\ pc[g] = "expunge" /\ ent[g] = NoEntries
  /\ amended' = TRUE
  /\ Insert(g, dirty)
  /\ mu' = None
  /\ UNCHANGED <<read, misses, call>>

-----------------------------------------------------------------------------
(* Range *)

\* Range goes through the entries of m, which no longer changes; f never stops it.
Visit(g, m) ==
  /\ Hold(g, m)
  /\ out' = [out EXCEPT ![g] = [k \in Keys |-> IF m[k] = None THEN Found(None) ELSE <<>>]]
  /\ Goto(g, IF m = NoEntries THEN "done" ELSE "entry")

RangeRead(g) ==
  /\ pc[g] = "read" /\ call[g].op = "Range"
  /\ IF amended THEN Goto(g, "lock") /\ UNCHANGED <<ent, out>> ELSE Visit(g, read)
  /\ UNCHANGED <<map, mu, call>>

RangeLocked(g) ==
  /\ pc[g] = "lock" /\ mu = None /\ call[g].op = "Range"
  /\ IF amended THEN Promote(dirty) ELSE UNCHANGED <<read, amended, dirty, misses>>
  /\ Visit(g, read')
  /\ UNCHANGED <<p, mu, call>>

RangeEntry(g) ==
  /\ pc[g] = "entry" /\ call[g].op = "Range"
  /\ \E k \in Keys :
       /\ ent[g][k] # None
       /\ out' = [out EXCEPT ![g][k] = Found(p[ent[g][k]])]
       /\ Hold(g, [ent[g] EXCEPT ![k] = None])
       /\ Goto(g, IF ent'[g] = NoEntries THEN "done" ELSE "entry")
  /\ UNCHANGED <<map, mu, call>>

-----------------------------------------------------------------------------
\* What the map holds for a key: its entry's value.
EntryOf(k) == IF read[k] # None \/ ~amended THEN read[k] ELSE dirty[k]
Value(k) == IF EntryOf(k) # None /\ p[EntryOf(k)] \in Values THEN p[EntryOf(k)] ELSE None

\* A LoadAndDelete that has taken the entry out of the dirty map has taken effect
\* before it reads the entry's value.
Taken(g) ==
  LET k == call[g].key IN
    /\ pc[g] = "entry" /\ call[g].op = "LoadAndDelete"
    /\ EntryOf(k) # ent[g][k] /\ p[ent[g][k]] \in Values
Outcome(g) ==
  IF Taken(g) THEN [out[g] EXCEPT ![call[g].key] = Found(p[ent[g][call[g].key]])] ELSE out[g]

Remember ==
  seen' = [g \in Goroutines |-> [k \in Keys |->
             IF \/ call'[g] = None \/ call'[g].op = "Store"
                \/ call'[g].op # "Range" /\ call'[g].key # k
                \/ Outcome(g)'[k] # <<>>
             THEN {} ELSE seen[g][k] \cup {Value(k)'}]]

Step(g) ==
  \/ Begin(g) \/ Return(g) \/ LoadRead(g) \/ AccessEntry(g)
  \/ LoadLocked(g) \/ StoreLocked(g) \/ FillLocked(g) \/ Expunge(g) \/ Publish(g)
  \/ RangeRead(g) \/ RangeLocked(g) \/ RangeEntry(g)

Next == (\E g \in Goroutines : Step(g)) /\ Remember

Spec == Init /\ [][Next]_vars

-----------------------------------------------------------------------------
(* Properties. *)

\* The comment of entry: what p says of the maps.  An expunged entry is the one
\* that a dirty map has left out; any other one is in the dirty map too, so that
\* the next promotion loses nothing; an expunged entry is put back before it is
\* filled, so that a dirty map that is nil is never written.  While dirtyLocked
\* copies m.read, this holds of the keys it has been through.  After as many
\* misses as it has keys the dirty map is promoted.
EntriesConsistent ==
  /\ TypeOK
  /\ \A k \in Keys :
       read[k] # None /\ ~(\E g \in Goroutines : pc[g] = "expunge" /\ ent[g][k] # None) =>
         (p[read[k]] = expunged <=> dirty # nil /\ dirty[k] # read[k])
  /\ \A k \in Keys : Has(dirty, k) => p[dirty[k]] # expunged /\ read[k] \in {None, dirty[k]}
  /\ mu = None => (amended <=> dirty # nil)
  /\ dirty # nil => misses < Size(dirty) \/ mu # None

\* sync.Map is linearizable: every call takes effect, or has read what it
\* returns, at a moment between its beginning and its end, whatever promotions,
\* deletions and re-insertions happen to the entries it holds; and what Range
\* says of each key was true at some moment of the call.
Promise == INSTANCE AtomicMap WITH
             content <- [k \in Keys |-> Value(k)],
             out <- [g \in Goroutines |-> Outcome(g)]
ImplementsAtomicMap == Promise!Spec
-----------------------------------------------------------------------------
(***************************************************************************)
(* Why it works: an inductive invariant.  An entry belongs to one key.  It *)
(* leaves the maps in two ways only: expunged, when the dirty map that has *)
(* left it out is promoted, after which its pointer never changes; or      *)
(* taken out of the dirty map by a LoadAndDelete, who alone may change it  *)
(* from then on.  Either way the key has had no value at some moment of    *)
(* the call of whoever still holds the entry.                              *)
(***************************************************************************)
\* The call of g is about k.
About(g, k) == call[g] # None /\ (call[g].op = "Range" \/ call[g].key = k)
\* g's call has its result for k.
Decided(g, k) ==
  /\ About(g, k)
  /\ pc[g] = "done" \/ (pc[g] = "entry" /\ call[g].op = "Range" /\ ent[g][k] = None)

CallFits(g) ==
  /\ pc[g] = "idle" <=> call[g] = None
  /\ pc[g] \in {"locked", "expunge"} <=> mu = g
  /\ pc[g] \in {"locked", "expunge"} => call[g].op \in {"Store", "LoadOrStore"}
  /\ \A k \in Keys :
       /\ ent[g][k] # None => pc[g] \in {"entry", "locked", "expunge"}
       /\ ent[g][k] # None /\ pc[g] # "expunge" => About(g, k)
       /\ About(g, k) /\ pc[g] \in {"entry", "locked"} /\ call[g].op # "Range" => ent[g][k] # None
       /\ out[g][k] # <<>> <=> Decided(g, k)
CallsFit == \A g \in Goroutines : CallFits(g)

\* e is out of the maps.
Gone(e, k) == read[k] # e /\ (dirty = nil \/ dirty[k] # e)

\* An entry belongs to one key.
Uses(e, k) == ~Gone(e, k) \/ \E g \in Goroutines : ent[g][k] = e
OneKey == \A e \in Entries, j, k \in Keys : Uses(e, j) /\ Uses(e, k) => j = k

\* While a dirty map is made, under mu, it holds entries of m.read only.
DirtyInTheMaking ==
  \A g \in Goroutines : pc[g] = "expunge" =>
    /\ ~amended /\ dirty # nil /\ misses = 0 /\ read[call[g].key] = None
    /\ \A k \in Keys :
         /\ ent[g][k] \in {None, read[k]} /\ dirty[k] \in {None, read[k]}
         /\ ent[g][k] # None => dirty[k] = None

\* An entry that only the dirty map has holds a value, and nobody may delete it.
DirtyHasValues ==
  \A k \in Keys : read[k] = None /\ Has(dirty, k) =>
    /\ p[dirty[k]] \in Values
    /\ \A g \in Goroutines : ent[g][k] = dirty[k] => call[g].op = "Load"

\* What the holder of an entry knows of it.
HoldersFit ==
  \A g \in Goroutines, k \in Keys : LET e == ent[g][k] IN
    /\ pc[g] = "entry" /\ e # None /\ e # read[k] =>
         \/ call[g].op = "Load"
         \/ Gone(e, k) /\ p[e] = expunged
         \/ /\ call[g].op = "LoadAndDelete" /\ Gone(e, k) /\ p[e] \in Values
            /\ \A h \in Goroutines \ {g} : ent[h][k] = e => call[h].op = "Load"
    /\ pc[g] = "locked" /\ e # None => e = read[k] /\ p[e] # expunged

\* Who holds an entry that has left the maps can say so.
GoneWasSeen ==
  \A g \in Goroutines, k \in Keys : LET e == ent[g][k] IN
    pc[g] = "entry" /\ e # None /\ Gone(e, k) /\ call[g].op # "Store" /\ ~Taken(g) =>
      None \in seen[g][k] /\ (p[e] \in Values => p[e] \in seen[g][k])

\* seen has what there is now.
Watching(g, k) == About(g, k) /\ call[g].op # "Store" /\ Outcome(g)[k] = <<>>
SeenFits ==
  /\ seen \in [Goroutines -> [Keys -> SUBSET (Values \cup {None})]]
  /\ \A g \in Goroutines, k \in Keys :
       IF Watching(g, k) THEN Value(k) \in seen[g][k] ELSE seen[g][k] = {}

MissesFit == /\ dirty = nil => misses = 0
             /\ amended => dirty # nil /\ misses < Size(dirty)
             /\ dirty # nil /\ ~amended => \E g \in Goroutines : pc[g] = "expunge"

IInv ==
  /\ EntriesConsistent /\ CallsFit /\ OneKey /\ DirtyInTheMaking /\ DirtyHasValues
  /\ HoldersFit /\ GoneWasSeen /\ SeenFits /\ MissesFit
=============================================================================
