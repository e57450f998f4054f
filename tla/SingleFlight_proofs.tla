------------------------ MODULE SingleFlight_proofs ------------------------
(***************************************************************************)
(* Proofs about SingleFlight, for any number of goroutines, keys and call  *)
(* objects: its type invariant, that a key is executed at most once at a   *)
(* time, that nobody waits for a call whose executor is gone, and that the *)
(* count of followers is exact while the call is in flight.                *)
(***************************************************************************)
EXTENDS SingleFlight, FiniteSetTheorems, TLAPS

Executing(p) == at[p] \in {"running", "returned"}
Following(p) == at[p] \in {"waiting", "leaving"}

\* Who is inside DoContext has a key and a call.
Engaged == \A p \in Procs : at[p] # "out" => key[p] \in Keys /\ call[p] \in Calls

\* An executor owns its call: it is open and nobody else executes it.  The
\* call is registered, unless Forget took it off the map.
Owned == /\ \A p \in Procs : Executing(p) => ~done[call[p]]
         /\ \A p, q \in Procs : Executing(p) /\ Executing(q) /\ call[p] = call[q]
                                  => p = q
         /\ \A p \in Procs : Executing(p) /\ key[p] \notin Forgettable
                            => flight[key[p]] = call[p]

\* What the executor is about to publish is set before the channel is closed.
Stored == \A p \in Procs : at[p] = "returned" => outcome[call[p]] # NoOutcome

\* A follower's call is still executed, or is done and has an outcome.
Attended == \A p \in Procs : at[p] = "waiting" =>
              \/ \E q \in Procs : Executes(q, call[p]) /\ ~done[call[p]]
              \/ done[call[p]] /\ outcome[call[p]] # NoOutcome

\* The counter of a call counts at least its followers, and exactly them as
\* long as the call is not done.
Counts == \A c \in Calls :
            /\ waiters[c] >= Cardinality(Followers(c))
            /\ ~done[c] => waiters[c] = Cardinality(Followers(c))

IInv == /\ TypeOK /\ Engaged /\ Owned /\ Stored /\ Attended /\ Counts
        /\ InFlightIsExecuting

-----------------------------------------------------------------------------
\* The followers of a call are finitely many.
LEMMA FollowersFinite ==
  \A c : IsFiniteSet(Followers(c)) /\ Cardinality(Followers(c)) \in Nat
<1> TAKE c
<1>1. IsFiniteSet(Followers(c))
  BY ProcsAssumption, FS_Subset DEF Followers
<1> QED  BY <1>1, FS_CardinalityType

\* The invariant holds at the start: nobody is in DoContext.
LEMMA InitIInv == Init => IInv
<1> SUFFICES ASSUME Init PROVE IInv
  OBVIOUS
<1>1. TypeOK
  BY DEF Init, TypeOK, Places
<1>2. \A p \in Procs : at[p] = "out"
  BY DEF Init
<1>3. Counts
  <2> SUFFICES ASSUME NEW c \in Calls
               PROVE waiters[c] = 0 /\ Cardinality(Followers(c)) = 0
    BY DEF Counts
  <2>1. Followers(c) = {}
    BY <1>2 DEF Followers, WaitsFor
  <2> QED  BY <2>1, FS_EmptySet DEF Init
<1>4. Engaged /\ Owned /\ Stored /\ Attended
  BY <1>2 DEF Engaged, Owned, Stored, Attended, Executing
<1>5. InFlightIsExecuting
  BY DEF Init, InFlightIsExecuting
<1> QED  BY <1>1, <1>3, <1>4, <1>5 DEF IInv

\* A step that moves no follower and no counter, and reopens no call, leaves
\* the counts right.
LEMMA CountsStay ==
  ASSUME Counts, \A c \in Calls : Followers(c)' = Followers(c),
         waiters' = waiters, \A c \in Calls : done[c] => done'[c]
  PROVE  Counts'
BY DEF Counts

LEMMA JoinIInv ==
  ASSUME IInv, NEW p \in Procs, NEW k \in Keys, Join(p, k)
  PROVE  IInv'
<1> USE DEF Join, Enters, IsInFlight, Executing, Executes
<1> DEFINE c == flight[k]
<1>1. c \in Calls /\ at[p] = "out" /\ ~done[c] /\ \E q \in Procs : Executes(q, c)
  BY DEF IInv, TypeOK, InFlightIsExecuting
<1>2. TypeOK'
  BY <1>1 DEF IInv, TypeOK, Places, Counted
<1>3. Engaged'
  BY <1>1 DEF IInv, TypeOK, Engaged
<1>4. Owned'
  BY <1>1 DEF IInv, TypeOK, Owned
<1>5. Stored'
  BY DEF IInv, TypeOK, Stored
<1>6. Attended'
  <2> SUFFICES ASSUME NEW q \in Procs, at'[q] = "waiting"
               PROVE \/ \E r \in Procs : Executes(r, call[q])' /\ ~done'[call'[q]]
                     \/ done'[call'[q]] /\ outcome'[call'[q]] # NoOutcome
    BY DEF Attended
  <2>1. CASE q = p
    <3>1. PICK r \in Procs : Executes(r, c)
      BY <1>1
    <3>2. r # p /\ call'[q] = c
      BY <1>1, <2>1, <3>1 DEF IInv, TypeOK
    <3>3. Executes(r, call[q])'
      BY <3>1, <3>2 DEF IInv, TypeOK
    <3> QED  BY <3>2, <3>3, <1>1
  <2>2. CASE q # p
    <3>1. at[q] = "waiting" /\ call'[q] = call[q]
      BY <2>2 DEF IInv, TypeOK
    <3>2. ASSUME NEW r \in Procs, Executes(r, call[q]) PROVE Executes(r, call[q])'
      <4>1. r # p
        BY <1>1, <3>2
      <4> QED  BY <4>1, <3>1, <3>2 DEF IInv, TypeOK
    <3> QED  BY <3>1, <3>2 DEF IInv, Attended
  <2> QED  BY <2>1, <2>2
<1>7. Counts'
  <2> SUFFICES ASSUME NEW d \in Calls
               PROVE /\ waiters'[d] >= Cardinality(Followers(d)')
                     /\ ~done'[d] => waiters'[d] = Cardinality(Followers(d)')
    BY DEF Counts
  <2>1. CASE d = c
    <3>1. Followers(d)' = Followers(d) \cup {p} /\ p \notin Followers(d)
      BY <1>1, <2>1 DEF IInv, TypeOK, Followers, WaitsFor
    <3>2. Cardinality(Followers(d)') = Cardinality(Followers(d)) + 1
      BY <3>1, FollowersFinite, FS_AddElement
    <3>3. waiters'[d] = waiters[d] + 1
      BY <1>1, <2>1 DEF IInv, TypeOK, Counted
    <3> QED  BY <3>2, <3>3, FollowersFinite DEF IInv, TypeOK, Counts
  <2>2. CASE d # c
    <3>1. Followers(d)' = Followers(d) /\ waiters'[d] = waiters[d]
      BY <1>1, <2>2 DEF IInv, TypeOK, Followers, WaitsFor, Counted
    <3> QED  BY <3>1 DEF IInv, Counts
  <2> QED  BY <2>1, <2>2
<1>8. InFlightIsExecuting'
  <2> SUFFICES ASSUME NEW j \in Keys, flight[j] # NoCall
               PROVE ~done[flight[j]] /\ \E q \in Procs : Executes(q, flight[j])' /\ key'[q] = j
    BY DEF InFlightIsExecuting
  <2>1. PICK q \in Procs : Executes(q, flight[j]) /\ key[q] = j
    BY DEF IInv, InFlightIsExecuting
  <2>2. q # p
    BY <1>1, <2>1
  <2>3. Executes(q, flight[j])' /\ key'[q] = j
    BY <2>1, <2>2 DEF IInv, TypeOK
  <2> QED  BY <2>3 DEF IInv, InFlightIsExecuting
<1> QED  BY <1>2, <1>3, <1>4, <1>5, <1>6, <1>7, <1>8 DEF IInv

LEMMA LeadIInv ==
  ASSUME IInv, NEW p \in Procs, NEW k \in Keys, NEW c \in Calls, Lead(p, k, c)
  PROVE  IInv'
<1> USE DEF Lead, Enters, IsInFlight, Executing, Executes, Unused, Freed
<1>1. /\ at[p] = "out" /\ flight[k] = NoCall
      /\ \A q \in Procs : call[q] # c
      /\ \A j \in Keys : flight[j] # c
  OBVIOUS
<1>2. TypeOK'
  BY ObjectAssumption DEF IInv, TypeOK, Places
<1>3. Engaged'
  BY DEF IInv, TypeOK, Engaged
<1>4. Owned'
  <2>1. ASSUME NEW q \in Procs, q # p, Executing(q)'
        PROVE  /\ Executing(q) /\ call'[q] = call[q] /\ call[q] \in Calls /\ call[q] # c
               /\ key'[q] = key[q] /\ key[q] \in Keys
    BY <1>1, <2>1 DEF IInv, TypeOK, Engaged
  <2>2. at'[p] = "running" /\ call'[p] = c /\ key'[p] = k
    BY DEF IInv, TypeOK
  <2>3. \A q \in Procs : Executing(q)' => ~done'[call'[q]]
    BY <2>1, <2>2 DEF IInv, TypeOK, Owned
  <2>4. \A q, r \in Procs : Executing(q)' /\ Executing(r)' /\ call'[q] = call'[r] => q = r
    <3> SUFFICES ASSUME NEW q \in Procs, NEW r \in Procs, Executing(q)', Executing(r)',
                        call'[q] = call'[r]
                 PROVE q = r
      OBVIOUS
    <3>1. CASE q = p \/ r = p
      BY <2>1, <2>2, <3>1
    <3>2. CASE q # p /\ r # p
      <4>1. Executing(q) /\ Executing(r) /\ call[q] = call[r]
        BY <2>1, <3>2
      <4> QED  BY <4>1 DEF IInv, Owned
    <3> QED  BY <3>1, <3>2
  <2>5. ASSUME NEW q \in Procs, Executing(q)', key'[q] \notin Forgettable
        PROVE flight'[key'[q]] = call'[q]
    <3>1. CASE q = p
      BY <2>2, <3>1 DEF IInv, TypeOK
    <3>2. CASE q # p
      <4>1. flight[key[q]] = call[q]
        BY <2>1, <2>5, <3>2 DEF IInv, Owned
      <4>2. key[q] # k
        BY <4>1, <2>1, <2>5, <3>2, <1>1, ObjectAssumption
      <4> QED  BY <4>1, <4>2, <2>1, <2>5, <3>2 DEF IInv, TypeOK
    <3> QED  BY <3>1, <3>2
  <2> QED  BY <2>3, <2>4, <2>5 DEF Owned
<1>5. Stored'
  BY <1>1 DEF IInv, TypeOK, Stored
<1>6. Attended'
  <2> SUFFICES ASSUME NEW q \in Procs, at'[q] = "waiting"
               PROVE \/ \E r \in Procs : Executes(r, call[q])' /\ ~done'[call'[q]]
                     \/ done'[call'[q]] /\ outcome'[call'[q]] # NoOutcome
    BY DEF Attended
  <2>1. /\ q # p /\ at[q] = "waiting" /\ call'[q] = call[q] /\ call[q] # c
        /\ done'[call[q]] = done[call[q]] /\ outcome'[call[q]] = outcome[call[q]]
    BY <1>1 DEF IInv, TypeOK, Engaged
  <2>2. ASSUME NEW r \in Procs, Executes(r, call[q]) PROVE Executes(r, call[q])'
    <3>1. r # p
      BY <1>1, <2>2
    <3> QED  BY <3>1, <2>1, <2>2 DEF IInv, TypeOK
  <2> QED  BY <2>1, <2>2 DEF IInv, Attended
<1>7. Counts'
  <2> SUFFICES ASSUME NEW d \in Calls
               PROVE /\ waiters'[d] >= Cardinality(Followers(d)')
                     /\ ~done'[d] => waiters'[d] = Cardinality(Followers(d)')
    BY DEF Counts
  <2>1. Followers(d)' = Followers(d)
    BY <1>1 DEF IInv, TypeOK, Followers, WaitsFor
  <2>2. CASE d = c
    <3>1. Followers(d) = {}
      BY <1>1, <2>2 DEF Followers, WaitsFor
    <3>2. waiters'[d] = 0 /\ Cardinality(Followers(d)') = 0
      BY <2>1, <2>2, <3>1, FS_EmptySet DEF IInv, TypeOK
    <3> QED  BY <3>2
  <2>3. CASE d # c
    BY <2>1, <2>3 DEF IInv, TypeOK, Counts
  <2> QED  BY <2>2, <2>3
<1>8. InFlightIsExecuting'
  <2> SUFFICES ASSUME NEW j \in Keys, flight'[j] # NoCall
               PROVE /\ ~done'[flight'[j]]
                     /\ \E q \in Procs : Executes(q, flight[j])' /\ key'[q] = j
    BY DEF InFlightIsExecuting
  <2>1. CASE j = k
    <3>1. flight'[j] = c /\ ~done'[c] /\ at'[p] = "running" /\ call'[p] = c /\ key'[p] = j
      BY <2>1 DEF IInv, TypeOK
    <3> QED  BY <3>1
  <2>2. CASE j # k
    <3>1. flight'[j] = flight[j] /\ flight[j] # c /\ flight[j] # NoCall
      BY <1>1, <2>2 DEF IInv, TypeOK
    <3>2. PICK q \in Procs : Executes(q, flight[j]) /\ key[q] = j
      BY <3>1 DEF IInv, InFlightIsExecuting
    <3>3. q # p
      BY <1>1, <3>2
    <3>4. Executes(q, flight[j])' /\ key'[q] = j
      BY <3>1, <3>2, <3>3 DEF IInv, TypeOK
    <3>5. ~done'[flight'[j]]
      BY <3>1 DEF IInv, TypeOK, InFlightIsExecuting
    <3> QED  BY <3>4, <3>5
  <2> QED  BY <2>1, <2>2
<1> QED  BY <1>2, <1>3, <1>4, <1>5, <1>6, <1>7, <1>8 DEF IInv

\* The executor only learns its outcome.
LEMMA ReturnIInv ==
  ASSUME IInv, NEW p \in Procs, NEW r \in Outcomes, Return(p, r)
  PROVE  IInv'
<1> USE DEF Return, Published, Executing, Executes
<1>1. /\ at[p] = "running" /\ call[p] \in Calls /\ r # NoOutcome
      /\ outcome'[call[p]] = r
      /\ \A c \in Calls : c # call[p] => outcome'[c] = outcome[c]
  BY ObjectAssumption DEF IInv, TypeOK, Engaged
<1>2. \A q \in Procs : \A c : Executes(q, c) => Executes(q, c)'
  BY DEF IInv, TypeOK
<1>3. TypeOK'
  BY DEF IInv, TypeOK, Places
<1>4. Engaged'
  BY <1>1 DEF IInv, TypeOK, Engaged
<1>5. Owned'
  BY <1>1 DEF IInv, TypeOK, Owned
<1>6. Stored'
  BY <1>1 DEF IInv, TypeOK, Stored, Engaged
<1>7. Attended'
  <2> SUFFICES ASSUME NEW q \in Procs, at'[q] = "waiting"
               PROVE \/ \E s \in Procs : Executes(s, call[q])' /\ ~done[call[q]]
                     \/ done[call[q]] /\ outcome'[call[q]] # NoOutcome
    BY DEF Attended
  <2>1. at[q] = "waiting" /\ call[q] \in Calls
    BY <1>1 DEF IInv, TypeOK, Engaged
  <2> QED  BY <1>1, <1>2, <2>1 DEF IInv, Attended
<1>8. Counts'
  <2>1. \A c \in Calls : Followers(c)' = Followers(c)
    BY <1>1 DEF IInv, TypeOK, Followers, WaitsFor
  <2> QED  BY <2>1, CountsStay DEF IInv
<1>9. InFlightIsExecuting'
  BY <1>2 DEF IInv, InFlightIsExecuting
<1> QED  BY <1>3, <1>4, <1>5, <1>6, <1>7, <1>8, <1>9 DEF IInv

\* Nobody but p refers to a call that is freed, so that no variable of another
\* process tells the difference.
LEMMA FreedCounts ==
  ASSUME IInv, NEW c \in Calls, Freed(c), Followers(c)' = {},
         \A d \in Calls \ {c} : Followers(d)' = Followers(d)
  PROVE  Counts'
<1>1. ASSUME NEW d \in Calls
      PROVE /\ waiters'[d] >= Cardinality(Followers(d)')
            /\ ~done'[d] => waiters'[d] = Cardinality(Followers(d)')
  <2>1. CASE d = c
    <3>1. Cardinality(Followers(d)') = 0
      BY <2>1, FS_EmptySet
    <3>2. waiters'[d] = 0
      BY <2>1 DEF Freed, IInv, TypeOK
    <3> QED  BY <3>1, <3>2
  <2>2. CASE d # c
    BY <2>2 DEF Freed, IInv, TypeOK, Counts
  <2> QED  BY <2>1, <2>2
<1> QED  BY <1>1 DEF Counts

\* The call is done: its followers find an outcome, and no key has it any more.
LEMMA FinishIInv ==
  ASSUME IInv, NEW p \in Procs, Finish(p)
  PROVE  IInv'
<1> USE DEF Finish, Unregistered, Exits, Executing, Executes, Freed, Closed
<1> DEFINE c == call[p]
<1>1. /\ at[p] = "returned" /\ c \in Calls /\ key[p] \in Keys
      /\ outcome[c] # NoOutcome /\ ~done[c]
      /\ \A d \in Calls : d # c => /\ done'[d] = done[d] /\ outcome'[d] = outcome[d]
                                   /\ waiters'[d] = waiters[d]
  BY DEF IInv, TypeOK, Engaged, Owned, Stored
<1>2. \A q \in Procs : Executing(q)' => /\ q # p /\ Executing(q)
                                       /\ call'[q] = call[q] /\ key'[q] = key[q]
                                       /\ call[q] \in Calls /\ call[q] # c
  BY <1>1 DEF IInv, TypeOK, Engaged, Owned
<1>3. TypeOK'
  <2>1. flight' \in [Keys -> Calls \cup {NoCall}]
    BY DEF IInv, TypeOK
  <2>2. /\ outcome' \in [Calls -> Outcomes \cup {NoOutcome}]
        /\ done' \in [Calls -> BOOLEAN] /\ waiters' \in [Calls -> Nat]
    <3>1. outcome \in [Calls -> Outcomes \cup {NoOutcome}] /\ outcome' \in
             {outcome, [outcome EXCEPT ![c] = NoOutcome]}
      BY DEF IInv, TypeOK
    <3>2. done \in [Calls -> BOOLEAN] /\ done' \in
             {[done EXCEPT ![c] = TRUE], [done EXCEPT ![c] = FALSE]}
      BY DEF IInv, TypeOK
    <3>3. waiters \in [Calls -> Nat] /\ waiters' \in
             {waiters, [waiters EXCEPT ![c] = 0]}
      BY DEF IInv, TypeOK
    <3>4. outcome' \in [Calls -> Outcomes \cup {NoOutcome}]
      BY <3>1
    <3>5. done' \in [Calls -> BOOLEAN]
      BY <3>2
    <3>6. waiters' \in [Calls -> Nat]
      BY <3>3
    <3> QED  BY <3>4, <3>5, <3>6
  <2>3. /\ at' \in [Procs -> Places]
        /\ key' \in [Procs -> Keys \cup {NoKey}]
        /\ call' \in [Procs -> Calls \cup {NoCall}]
    BY DEF IInv, TypeOK, Places
  <2>4. got' \in [Procs -> Outcomes \cup {NoOutcome, Cancelled}]
    BY <1>1 DEF IInv, TypeOK
  <2> QED  BY <2>1, <2>2, <2>3, <2>4 DEF TypeOK
<1>4. Engaged'
  BY <1>1 DEF IInv, TypeOK, Engaged
<1>5. Owned'
  <2>1. \A q \in Procs : Executing(q)' => ~done'[call'[q]]
    BY <1>1, <1>2 DEF IInv, Owned
  <2>2. \A q, r \in Procs : Executing(q)' /\ Executing(r)' /\ call'[q] = call'[r] => q = r
    BY <1>2 DEF IInv, Owned
  <2>3. ASSUME NEW q \in Procs, Executing(q)', key'[q] \notin Forgettable
        PROVE flight'[key'[q]] = call'[q]
    <3>1. flight[key[q]] = call[q]
      BY <1>1, <1>2, <2>3 DEF IInv, Owned
    <3>2. ASSUME key[q] = key[p] PROVE flight[key[p]] = c
      BY <3>2, <1>1, <1>2, <2>3 DEF IInv, Owned
    <3>3. key[q] # key[p]
      BY <3>1, <3>2, <1>2, <2>3
    <3> QED  BY <3>1, <3>3, <1>2, <2>3 DEF IInv, TypeOK, Engaged
  <2> QED  BY <2>1, <2>2, <2>3 DEF Owned
<1>6. Stored'
  <2> SUFFICES ASSUME NEW q \in Procs, at'[q] = "returned"
               PROVE outcome'[call'[q]] # NoOutcome
    BY DEF Stored
  <2>1. at[q] = "returned" /\ call'[q] = call[q] /\ call[q] \in Calls /\ call[q] # c
    BY <1>2 DEF IInv, TypeOK
  <2> QED  BY <1>1, <2>1 DEF IInv, Stored
<1>7. Attended'
  <2> SUFFICES ASSUME NEW q \in Procs, at'[q] = "waiting"
               PROVE \/ \E s \in Procs : Executes(s, call[q])' /\ ~done'[call'[q]]
                     \/ done'[call'[q]] /\ outcome'[call'[q]] # NoOutcome
    BY DEF Attended
  <2>1. q # p /\ at[q] = "waiting" /\ call'[q] = call[q] /\ call[q] \in Calls
    BY <1>1 DEF IInv, TypeOK, Engaged
  <2>2. CASE call[q] = c
    <3>1. q \in Followers(c)
      BY <2>1, <2>2 DEF Followers, WaitsFor
    <3>2. done'[c] /\ outcome'[c] = outcome[c]
      BY <1>1, <3>1 DEF IInv, TypeOK
    <3> QED  BY <1>1, <2>1, <2>2, <3>2
  <2>3. CASE call[q] # c
    <3>1. ASSUME NEW s \in Procs, Executes(s, call[q]) PROVE Executes(s, call[q])'
      <4>1. s # p
        BY <2>3, <3>1
      <4> QED  BY <4>1, <2>1, <3>1 DEF IInv, TypeOK
    <3> QED  BY <3>1, <1>1, <2>1, <2>3 DEF IInv, Attended
  <2> QED  BY <2>2, <2>3
<1>8. Counts'
  <2>1. \A d \in Calls : Followers(d)' = Followers(d)
    BY <1>1 DEF IInv, TypeOK, Followers, WaitsFor
  <2>2. CASE Followers(c) = {}
    BY <1>1, <2>1, <2>2, FreedCounts
  <2>3. CASE Followers(c) # {}
    <3>1. waiters' = waiters /\ \A d \in Calls : done[d] => done'[d]
      BY <1>1, <2>3
    <3> QED  BY <2>1, <3>1, CountsStay DEF IInv
  <2> QED  BY <2>2, <2>3
<1>9. InFlightIsExecuting'
  <2> SUFFICES ASSUME NEW j \in Keys, flight'[j] # NoCall
               PROVE /\ ~done'[flight'[j]]
                     /\ \E q \in Procs : Executes(q, flight[j])' /\ key'[q] = j
    BY DEF InFlightIsExecuting
  <2>1. j # key[p] /\ flight'[j] = flight[j] /\ flight[j] \in Calls
    BY <1>1 DEF IInv, TypeOK
  <2>2. PICK q \in Procs : Executes(q, flight[j]) /\ key[q] = j
    BY <2>1 DEF IInv, InFlightIsExecuting
  <2>3. q # p /\ flight[j] # c
    BY <1>1, <2>1, <2>2 DEF IInv, Owned
  <2>4. Executes(q, flight[j])' /\ key'[q] = j
    BY <2>1, <2>2, <2>3 DEF IInv, TypeOK
  <2>5. ~done'[flight'[j]]
    BY <2>1, <2>3, <1>1 DEF IInv, InFlightIsExecuting
  <2> QED  BY <2>4, <2>5
<1> QED  BY <1>3, <1>4, <1>5, <1>6, <1>7, <1>8, <1>9 DEF IInv

\* A follower goes, with or without the outcome, and frees the call if it is
\* done and nobody else refers to it: nothing else depends on it.
LEMMA DepartIInv ==
  ASSUME IInv, NEW p \in Procs, NEW r \in Outcomes \cup {Cancelled, NoOutcome},
         Exits(p, r), Following(p), UNCHANGED flight,
         waiters' \in [Calls -> Nat],
         \/ UNCHANGED <<outcome, done>>
         \/ done[call[p]] /\ Followers(call[p]) = {p} /\ Freed(call[p])
  PROVE  /\ TypeOK' /\ Engaged' /\ Owned' /\ Stored' /\ Attended'
         /\ InFlightIsExecuting'
         /\ call[p] \in Calls
         /\ \A d \in Calls : Followers(d)' = IF d = call[p] THEN Followers(d) \ {p}
                                                            ELSE Followers(d)
<1> USE DEF Exits, Executing, Executes, Following
<1>1. \A q \in Procs : \A d : Executes(q, d) => Executes(q, d)' /\ key'[q] = key[q]
  BY DEF IInv, TypeOK
<1>2. \A q \in Procs : at'[q] # "out" =>
        /\ at'[q] = at[q] /\ q # p /\ key'[q] = key[q] /\ call'[q] = call[q]
        /\ call[q] \in Calls
  BY DEF IInv, TypeOK, Engaged
<1>3. call[p] \in Calls
  BY DEF IInv, Engaged
<1>4. ASSUME NEW d \in Calls
      PROVE  \/ (done'[d] <=> done[d]) /\ outcome'[d] = outcome[d]
             \/ d = call[p] /\ done[d] /\ Followers(d) = {p} /\ ~done'[d]
  <2>1. CASE done' = done /\ outcome' = outcome
    BY <2>1
  <2>2. CASE done[call[p]] /\ Followers(call[p]) = {p} /\ Freed(call[p])
    <3>1. DOMAIN done = Calls /\ DOMAIN outcome = Calls
      BY DEF IInv, TypeOK
    <3>2. CASE d = call[p]
      <4>1. ~done'[d]
        BY <2>2, <3>1, <3>2 DEF Freed
      <4>2. done[d] /\ Followers(d) = {p}
        BY <2>2, <3>2
      <4> QED  BY <3>2, <4>1, <4>2
    <3>3. CASE d # call[p]
      <4>1. done'[d] <=> done[d]
        BY <2>2, <3>1, <3>3 DEF Freed
      <4>2. outcome'[d] = outcome[d]
        BY <2>2, <3>1, <3>3 DEF Freed
      <4> QED  BY <4>1, <4>2
    <3> QED  BY <3>2, <3>3
  <2> QED  BY <2>1, <2>2
<1>5. \A d \in Calls : done'[d] => done[d]
  BY <1>4 DEF Freed, IInv, TypeOK
<1>6. TypeOK'
  BY DEF Freed, IInv, TypeOK, Places
<1>7. Engaged'
  BY <1>2 DEF IInv, Engaged
<1>8. Owned'
  <2>1. \A q \in Procs : Executing(q)' => /\ Executing(q) /\ call'[q] = call[q]
                                          /\ key'[q] = key[q] /\ call[q] \in Calls
    BY <1>2
  <2> QED  BY <2>1, <1>5 DEF IInv, Owned
<1>9. Stored'
  <2> SUFFICES ASSUME NEW q \in Procs, at'[q] = "returned"
               PROVE outcome'[call'[q]] # NoOutcome
    BY DEF Stored
  <2>1. at[q] = "returned" /\ call'[q] = call[q] /\ call[q] \in Calls /\ ~done[call[q]]
    BY <1>2 DEF IInv, Owned
  <2> QED  BY <2>1, <1>4 DEF IInv, Stored
<1>10. Attended'
  <2> SUFFICES ASSUME NEW q \in Procs, at'[q] = "waiting"
               PROVE \/ \E s \in Procs : Executes(s, call[q])' /\ ~done'[call'[q]]
                     \/ done'[call'[q]] /\ outcome'[call'[q]] # NoOutcome
    BY DEF Attended
  <2>1. /\ at[q] = "waiting" /\ q # p /\ call'[q] = call[q] /\ call[q] \in Calls
        /\ q \in Followers(call[q])
    BY <1>2 DEF IInv, TypeOK, Followers, WaitsFor
  <2>2. (done'[call[q]] <=> done[call[q]]) /\ outcome'[call[q]] = outcome[call[q]]
    BY <2>1, <1>4
  <2> QED  BY <2>1, <2>2, <1>1 DEF IInv, Attended
<1>11. InFlightIsExecuting'
  BY <1>1, <1>5 DEF IInv, TypeOK, InFlightIsExecuting
<1>12. \A d \in Calls : Followers(d)' = IF d = call[p] THEN Followers(d) \ {p}
                                                       ELSE Followers(d)
  BY DEF IInv, TypeOK, Followers, WaitsFor
<1> QED  BY <1>3, <1>6, <1>7, <1>8, <1>9, <1>10, <1>11, <1>12

\* A follower that leaves was one of those counted.
LEMMA OneFewer ==
  ASSUME NEW p \in Procs, Following(p)
  PROVE  /\ Cardinality(Followers(call[p]) \ {p}) = Cardinality(Followers(call[p])) - 1
         /\ Cardinality(Followers(call[p])) > 0
<1>1. p \in Followers(call[p])
  BY DEF Following, Followers, WaitsFor
<1>2. Cardinality(Followers(call[p])) > 0
  BY <1>1, FollowersFinite, FS_EmptySet
<1> QED  BY <1>1, <1>2, FollowersFinite, FS_RemoveElement

LEMMA ReceiveIInv ==
  ASSUME IInv, NEW p \in Procs, Receive(p)
  PROVE  IInv'
<1>0. PICK c \in Calls : c = call[p]
  BY DEF Receive, IInv, Engaged
<1>1. /\ at[p] = "waiting" /\ Following(p) /\ done[c]
      /\ outcome[c] \in Outcomes \cup {Cancelled, NoOutcome}
  BY <1>0 DEF Receive, Following, IInv, TypeOK
<1>2. waiters' \in [Calls -> Nat]
  BY DEF Receive, Freed, IInv, TypeOK
<1>3. /\ TypeOK' /\ Engaged' /\ Owned' /\ Stored' /\ Attended' /\ InFlightIsExecuting'
      /\ \A d \in Calls : Followers(d)' = IF d = c THEN Followers(d) \ {p}
                                                   ELSE Followers(d)
  BY <1>0, <1>1, <1>2, DepartIInv DEF Receive
<1>4. Counts'
  <2>1. CASE Followers(c) = {p}
    <3>1. Followers(c)' = {} /\ Freed(c)
      BY <1>0, <1>3, <2>1 DEF Receive
    <3> QED  BY <1>3, <3>1, FreedCounts
  <2>2. CASE Followers(c) # {p}
    <3> SUFFICES ASSUME NEW d \in Calls
                 PROVE /\ waiters'[d] >= Cardinality(Followers(d)')
                       /\ ~done'[d] => waiters'[d] = Cardinality(Followers(d)')
      BY DEF Counts
    <3>1. waiters' = waiters /\ done' = done
      BY <1>0, <2>2 DEF Receive
    <3>2. CASE d = c
      BY <1>0, <1>1, <1>3, <3>1, <3>2, OneFewer, FollowersFinite DEF IInv, TypeOK, Counts
    <3>3. CASE d # c
      BY <1>3, <3>1, <3>3 DEF IInv, Counts
    <3> QED  BY <3>2, <3>3
  <2> QED  BY <2>1, <2>2
<1> QED  BY <1>3, <1>4 DEF IInv

LEMMA LeaveIInv ==
  ASSUME IInv, NEW p \in Procs, Leave(p)
  PROVE  IInv'
<1>0. PICK c \in Calls : c = call[p]
  BY DEF Leave, IInv, Engaged
<1>1. at[p] = "leaving" /\ Following(p)
  BY DEF Leave, Following
<1>2. waiters[c] > 0 /\ Cardinality(Followers(c) \ {p}) = Cardinality(Followers(c)) - 1
  BY <1>0, <1>1, OneFewer, FollowersFinite DEF IInv, TypeOK, Counts
<1>3. waiters' \in [Calls -> Nat]
  BY <1>0, <1>2 DEF Leave, Uncounted, Freed, IInv, TypeOK
<1>4. /\ TypeOK' /\ Engaged' /\ Owned' /\ Stored' /\ Attended' /\ InFlightIsExecuting'
      /\ \A d \in Calls : Followers(d)' = IF d = c THEN Followers(d) \ {p}
                                                   ELSE Followers(d)
  BY <1>0, <1>1, <1>3, DepartIInv DEF Leave
<1>5. Counts'
  <2>1. CASE done[c] /\ Followers(c) = {p}
    <3>1. Followers(c)' = {} /\ Freed(c)
      BY <1>0, <1>4, <2>1 DEF Leave
    <3> QED  BY <1>4, <3>1, FreedCounts
  <2>2. CASE ~(done[c] /\ Followers(c) = {p})
    <3> SUFFICES ASSUME NEW d \in Calls
                 PROVE /\ waiters'[d] >= Cardinality(Followers(d)')
                       /\ ~done'[d] => waiters'[d] = Cardinality(Followers(d)')
      BY DEF Counts
    <3>1. done' = done /\ waiters'[d] = IF d = c THEN waiters[d] - 1 ELSE waiters[d]
      BY <1>0, <2>2 DEF Leave, Uncounted, IInv, TypeOK
    <3>2. CASE d = c
      <4>1. Cardinality(Followers(d)') = Cardinality(Followers(c)) - 1
        BY <1>0, <1>2, <1>4, <3>2
      <4>2. /\ waiters[c] \in Nat /\ Cardinality(Followers(c)) \in Nat
            /\ waiters[c] >= Cardinality(Followers(c))
            /\ ~done[c] => waiters[c] = Cardinality(Followers(c))
        BY <1>0, FollowersFinite DEF IInv, TypeOK, Counts
      <4> QED  BY <3>1, <3>2, <4>1, <4>2
    <3>3. CASE d # c
      BY <1>4, <3>1, <3>3 DEF IInv, Counts
    <3> QED  BY <3>2, <3>3
  <2> QED  BY <2>1, <2>2
<1> QED  BY <1>4, <1>5 DEF IInv

LEMMA CancelIInv ==
  ASSUME IInv, NEW p \in Procs, Cancel(p)
  PROVE  IInv'
<1> USE DEF Cancel, callVars, Executing, Executes
<1>1. \A q \in Procs : \A c : Executes(q, c) => Executes(q, c)'
  BY DEF IInv, TypeOK
<1>2. TypeOK'
  BY DEF IInv, TypeOK, Places
<1>3. Engaged'
  BY DEF IInv, TypeOK, Engaged
<1>4. Owned'
  BY DEF IInv, TypeOK, Owned
<1>5. Stored'
  BY DEF IInv, TypeOK, Stored
<1>6. Attended'
  <2>1. \A q \in Procs : at'[q] = "waiting" => at[q] = "waiting"
    BY DEF IInv, TypeOK
  <2> QED  BY <1>1, <2>1 DEF IInv, Attended
<1>7. Counts'
  <2>1. \A c \in Calls : Followers(c)' = Followers(c)
    BY DEF IInv, TypeOK, Followers, WaitsFor
  <2> QED  BY <2>1, CountsStay DEF IInv
<1>8. InFlightIsExecuting'
  BY <1>1 DEF IInv, InFlightIsExecuting
<1> QED  BY <1>2, <1>3, <1>4, <1>5, <1>6, <1>7, <1>8 DEF IInv

LEMMA ForgetIInv ==
  ASSUME IInv, NEW k \in Keys, Forget(k)
  PROVE  IInv'
<1> USE DEF Forget, procVars, Executing, Executes
<1>1. TypeOK'
  BY DEF IInv, TypeOK
<1>2. Engaged' /\ Owned' /\ Stored' /\ Attended'
  BY DEF IInv, Engaged, Owned, Stored, Attended
<1>3. Counts'
  BY DEF IInv, Counts, Followers, WaitsFor
<1>4. InFlightIsExecuting'
  BY DEF IInv, TypeOK, InFlightIsExecuting
<1> QED  BY <1>1, <1>2, <1>3, <1>4 DEF IInv

LEMMA NextIInv == IInv /\ [Next]_vars => IInv'
<1> SUFFICES ASSUME IInv, [Next]_vars PROVE IInv'
  OBVIOUS
<1>1. ASSUME NEW p \in Procs, NEW k \in Keys, Join(p, k) PROVE IInv'
  BY <1>1, JoinIInv
<1>2. ASSUME NEW p \in Procs, NEW k \in Keys, NEW c \in Calls, Lead(p, k, c) PROVE IInv'
  BY <1>2, LeadIInv
<1>3. ASSUME NEW p \in Procs, NEW r \in Outcomes, Return(p, r) PROVE IInv'
  BY <1>3, ReturnIInv
<1>4. ASSUME NEW p \in Procs, Finish(p) \/ Receive(p) \/ Leave(p) \/ Cancel(p) PROVE IInv'
  BY <1>4, FinishIInv, ReceiveIInv, LeaveIInv, CancelIInv
<1>5. ASSUME NEW k \in Keys, Forget(k) PROVE IInv'
  BY <1>5, ForgetIInv
<1>6. CASE UNCHANGED vars
  BY <1>6 DEF vars, callVars, procVars, IInv, TypeOK, Engaged, Owned, Stored,
              Attended, Counts, InFlightIsExecuting, Followers, WaitsFor,
              Executing, Executes
<1> QED  BY <1>1, <1>2, <1>3, <1>4, <1>5, <1>6 DEF Next, Advance

-----------------------------------------------------------------------------
(***************************************************************************)
(* The theorems.                                                           *)
(***************************************************************************)

\* The invariant holds in every reachable state of DoContext and Forget.
THEOREM IInvAlways == Spec => []IInv
<1>1. Init => IInv
  BY InitIInv
<1>2. IInv /\ [Next]_vars => IInv'
  BY NextIInv
<1> QED  BY <1>1, <1>2, PTL DEF Spec

\* Every variable keeps its type; the counter of a call never goes below zero,
\* although a follower of a call that is done is not uncounted.
THEOREM TypeOKAlways == Spec => []TypeOK
<1>1. IInv => TypeOK
  BY DEF IInv
<1> QED  BY <1>1, IInvAlways, PTL

\* Only one execution of a key is in flight at a time (Do, DoContext).
THEOREM OneExecutionAlways == Spec => []OneExecution
<1>1. IInv => OneExecution
  BY DEF IInv, Owned, OneExecution, Executing
<1> QED  BY <1>1, IInvAlways, PTL

\* Nobody waits for a call whose executor is gone without an outcome.
THEOREM NobodyStrandedAlways == Spec => []NobodyStranded
<1>1. IInv => NobodyStranded
  BY DEF IInv, Attended, NobodyStranded
<1> QED  BY <1>1, IInvAlways, PTL

\* Whoever joins a key joins an execution that is under way.
THEOREM InFlightIsExecutingAlways == Spec => []InFlightIsExecuting
<1>1. IInv => InFlightIsExecuting
  BY DEF IInv
<1> QED  BY <1>1, IInvAlways, PTL

\* Waiters counts exactly the followers of a call in flight.
THEOREM WaitersExactAlways == Spec => []WaitersExact
<1>1. IInv => WaitersExact
  BY DEF IInv, TypeOK, InFlightIsExecuting, Counts, WaitersExact
<1> QED  BY <1>1, IInvAlways, PTL
=============================================================================
