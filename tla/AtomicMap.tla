------------------------------ MODULE AtomicMap ------------------------------
(***************************************************************************)
(* What sync.Map promises (the comments of its methods): it is "like a Go  *)
(* map[interface{}]interface{} but is safe for concurrent use".  A call    *)
(* takes effect at one moment between its beginning and its end; Range     *)
(* "may reflect any mapping for that key from any point during the Range   *)
(* call".                                                                  *)
(***************************************************************************)
CONSTANTS Goroutines, Keys, Values, Calls, None

VARIABLES content,  \* content[k]: the value of k, or None
          call,     \* call[g]: the call g is in, or None
          out,      \* out[g][k]: <<value, loaded>>, what the call says of k, or <<>>
          seen      \* seen[g][k]: the values that k has had since a call began that will read it

vars == <<content, call, out, seen>>

\* The keys that a call says something of.
Asked(c) == IF c.op = "Range" THEN Keys ELSE {c.key}
Undecided(g) == {k \in Asked(call[g]) : out[g][k] = <<>>}
NoOut == [k \in Keys |-> <<>>]
Found(v) == <<v, v # None>>

Init ==
  /\ content = [k \in Keys |-> None]
  /\ call = [g \in Goroutines |-> None]
  /\ out = [g \in Goroutines |-> NoOut]
  /\ seen = [g \in Goroutines |-> [k \in Keys |-> {}]]

Begin(g) ==
  /\ call[g] = None
  /\ \E c \in Calls[g] : call' = [call EXCEPT ![g] = c]
  /\ UNCHANGED <<content, out>>

\* The call changes the value of its key.
Write(g) ==
  /\ call[g] # None /\ call[g].op \in {"Store", "LoadOrStore", "LoadAndDelete"}
  /\ \E k \in Undecided(g) :
       /\ call[g].op = "LoadOrStore" => content[k] = None
       /\ call[g].op = "LoadAndDelete" => content[k] # None
       /\ IF call[g].op = "LoadAndDelete"
            THEN /\ content' = [content EXCEPT ![k] = None]
                 /\ out' = [out EXCEPT ![g][k] = <<content[k], TRUE>>]
            ELSE /\ content' = [content EXCEPT ![k] = call[g].val]
                 /\ out' = [out EXCEPT ![g][k] = <<call[g].val, FALSE>>]
  /\ UNCHANGED call

\* The call leaves the map alone and reports what was there at some moment of it.
Read(g) ==
  /\ call[g] # None /\ call[g].op # "Store"
  /\ \E ks \in SUBSET Undecided(g) : \E f \in [ks -> Values \cup {None}] :
       /\ \A k \in ks : f[k] \in seen[g][k]
       /\ call[g].op = "LoadOrStore" => \A k \in ks : f[k] # None
       /\ call[g].op = "LoadAndDelete" => \A k \in ks : f[k] = None
       /\ out' = [out EXCEPT ![g] = [k \in Keys |-> IF k \in ks THEN Found(f[k]) ELSE out[g][k]]]
  /\ UNCHANGED <<content, call>>

End(g) ==
  /\ call[g] # None /\ Undecided(g) = {}
  /\ call' = [call EXCEPT ![g] = None]
  /\ out' = [out EXCEPT ![g] = NoOut]
  /\ UNCHANGED content

Remember ==
  seen' = [g \in Goroutines |-> [k \in Keys |->
             IF call'[g] = None \/ call'[g].op = "Store" \/ k \notin Undecided(g)' THEN {}
             ELSE seen[g][k] \cup {content'[k]}]]

Next == (\E g \in Goroutines : Begin(g) \/ Write(g) \/ Read(g) \/ End(g)) /\ Remember
Spec == Init /\ [][Next]_vars
=============================================================================
