-------------------------- MODULE Services_proofs ---------------------------
(* Proofs about the outbox for any messages, workers and destinations, however *)
(* answers, batches and commits are lost and processes reconfigured; about the *)
(* digest for any writers, texts and losses; and about the composition of the  *)
(* background services.                                                        *)
EXTENDS MCServices, Sessions_proofs

-----------------------------------------------------------------------------
(* The outbox.                                                                 *)

EventRow == [state : {"none", "pending", "delivered", "revoked"}, dest : Endpoints, due : BOOLEAN]
PosterState == [todo : SUBSET Events, done : SUBSET Events, later : SUBSET Events,
                revoke : SUBSET Events]

\* What the proofs need of the types.
OutboxTypes ==
    /\ event \in [Events -> EventRow]
    /\ endpoint \in [Processes -> Endpoints]
    /\ poster \in [Posters -> PosterState]
    /\ received \in [Endpoints \X Events -> Nat]
    /\ refusals \in Nat

\* A row is at one place of one batch, waits for it, and is posted to its destination.
BatchRight(w) ==
    /\ poster[w].todo \cap poster[w].done = {}
    /\ poster[w].todo \cap poster[w].later = {}
    /\ poster[w].done \cap poster[w].later = {}
    /\ poster[w].revoke \cap (poster[w].todo \cup poster[w].done \cup poster[w].later) = {}
    /\ \A e \in Locked(w) : event[e].state = "pending"
    /\ \A e \in poster[w].todo \cup poster[w].done : event[e].dest = endpoint[w]
    /\ \A e \in poster[w].done : received[<<event[e].dest, e>>] > 0
BatchesApart ==
    /\ \A w, v \in Posters : \A e \in Locked(w) \cap Locked(v) : w = v
    /\ \A w \in Posters : BatchRight(w)

\* Acceptances of an event: only by its destination, and one more than were lost only
\* while its success is at hand or stored.
Succeeded(e) == event[e].state = "delivered" \/ \E w \in Posters : e \in poster[w].done
ReceiptsCounted ==
    \A e \in Events :
      /\ event[e].state = "none" => \A d \in Endpoints : received[<<d, e>>] = 0
      /\ event[e].state = "delivered" => received[<<event[e].dest, e>>] > 0
      /\ \A d \in Endpoints : received[<<d, e>>] > 0 => event[e].dest = d
      /\ received[<<event[e].dest, e>>] <= refusals + 1
      /\ ~ Succeeded(e) => received[<<event[e].dest, e>>] <= refusals

OutboxInv == OutboxTypes /\ BatchesApart /\ ReceiptsCounted

LEMMA SomeEndpoint == (CHOOSE e \in Endpoints : TRUE) \in Endpoints
    BY OutboxConstants DEF OutboxConstants

LEMMA OutboxInit == ASSUME InitOutbox PROVE OutboxInv
<1>1. NoRow \in EventRow
    BY SomeEndpoint DEF NoRow, EventRow
<1>2. Resting \in PosterState
    BY DEF Resting, PosterState
<1>3. OutboxTypes
    BY <1>1, <1>2, SomeEndpoint, OutboxConstants DEF InitOutbox, OutboxTypes
<1>4. \A w \in Posters : Locked(w) = {} /\ poster[w] = Resting
    BY DEF InitOutbox, Locked, Resting
<1>5. BatchesApart
    BY <1>4 DEF BatchesApart, BatchRight, Resting
<1>6. \A e \in Events : event[e].state = "none" /\ event[e].dest \in Endpoints
    BY <1>1 DEF InitOutbox, NoRow, EventRow
<1>7. ReceiptsCounted
    BY <1>6 DEF ReceiptsCounted, InitOutbox
<1> QED BY <1>3, <1>5, <1>7 DEF OutboxInv

LEMMA AdverseCounts == ASSUME OutboxInv, Adverse PROVE refusals' = refusals + 1 /\ refusals' \in Nat
    BY DEF Adverse, OutboxInv, OutboxTypes

\* Recording an event keeps the invariant: a row that was there is left alone.
LEMMA AddedKeeps == ASSUME OutboxInv, NEW e \in Events, Added(e), refusals' \in Nat,
                           refusals' >= refusals, UNCHANGED <<endpoint, poster, received>>
                    PROVE  OutboxInv'
<1>1. \A f \in Events : event'[f] = event[f] \/ (event[f].state = "none"
           /\ event'[f].state = "pending" /\ event'[f] \in EventRow)
  <2>1. [state |-> "pending", due |-> TRUE, dest |-> endpoint[Recorder]] \in EventRow
      BY DEF OutboxInv, OutboxTypes, Processes, EventRow
  <2> QED BY <2>1 DEF Added, OutboxInv, OutboxTypes
<1>2. event' \in [Events -> EventRow]
  <2>1. [state |-> "pending", due |-> TRUE, dest |-> endpoint[Recorder]] \in EventRow
      BY DEF OutboxInv, OutboxTypes, Processes, EventRow
  <2> QED BY <2>1 DEF Added, OutboxInv, OutboxTypes
<1>3. OutboxTypes'
    BY <1>2 DEF OutboxInv, OutboxTypes
<1>4. \A w \in Posters : Locked(w)' = Locked(w) /\ Locked(w) \subseteq Events
    BY DEF Locked, OutboxInv, OutboxTypes, PosterState
<1>5. \A w \in Posters : \A f \in Locked(w) : event'[f] = event[f]
    BY <1>1, <1>4 DEF OutboxInv, BatchesApart, BatchRight
<1>6. BatchesApart'
    BY <1>4, <1>5 DEF OutboxInv, BatchesApart, BatchRight, Locked
<1>7. ReceiptsCounted'
  <2> SUFFICES ASSUME NEW f \in Events
               PROVE  (/\ event[f].state = "none" => \A d \in Endpoints : received[<<d, f>>] = 0
                       /\ event[f].state = "delivered" => received[<<event[f].dest, f>>] > 0
                       /\ \A d \in Endpoints : received[<<d, f>>] > 0 => event[f].dest = d
                       /\ received[<<event[f].dest, f>>] <= refusals + 1
                       /\ ~ Succeeded(f) => received[<<event[f].dest, f>>] <= refusals)'
      BY DEF ReceiptsCounted
  <2>t. event[f].dest \in Endpoints /\ event'[f].dest \in Endpoints
      BY <1>2 DEF OutboxInv, OutboxTypes, EventRow
  <2>n. /\ \A d \in Endpoints : received[<<d, f>>] \in Nat
        /\ refusals \in Nat
      BY DEF OutboxInv, OutboxTypes
  <2>1. CASE event'[f] = event[f]
      BY <2>1, <2>t, <2>n DEF OutboxInv, OutboxTypes, ReceiptsCounted, Succeeded
  <2>2. CASE event[f].state = "none" /\ event'[f].state = "pending"
    <3>1. \A d \in Endpoints : received'[<<d, f>>] = 0
        BY <2>2 DEF OutboxInv, ReceiptsCounted
    <3>2. received'[<<event'[f].dest, f>>] = 0 /\ 0 <= refusals'
        BY <2>t, <3>1
    <3>3. received'[<<event'[f].dest, f>>] <= refusals' + 1
      <4>1. \A n \in Nat : 0 <= n + 1
          OBVIOUS
      <4>2. 0 <= refusals' + 1
          BY <4>1
      <4> QED BY <3>2, <4>2
    <3>4. \A d \in Endpoints : ~ (received'[<<d, f>>] > 0)
        BY <3>1
    <3> QED BY <2>2, <3>2, <3>3, <3>4
  <2> QED BY <1>1, <2>1, <2>2
<1> QED BY <1>3, <1>6, <1>7 DEF OutboxInv

\* Counting: a step that changes neither rows nor acceptances may forget the successes
\* of a batch only against one more refusal.
LEMMA CountsKept == ASSUME OutboxInv, event' = event, received' = received, refusals' \in Nat,
                           \/ refusals' = refusals + 1
                           \/ /\ refusals' = refusals
                              /\ \A e \in Events : Succeeded(e) => Succeeded(e)'
                    PROVE  ReceiptsCounted'
<1>n. \A e \in Events : /\ received[<<event[e].dest, e>>] \in Nat
                        /\ refusals \in Nat
  <2>1. \A e \in Events : event[e].dest \in Endpoints
      BY DEF OutboxInv, OutboxTypes, EventRow
  <2> QED BY <2>1 DEF OutboxInv, OutboxTypes
<1>1. \A e \in Events : /\ received[<<event[e].dest, e>>] <= refusals + 1
                        /\ ~ Succeeded(e) => received[<<event[e].dest, e>>] <= refusals
    BY DEF OutboxInv, ReceiptsCounted
<1>2. \A e \in Events : /\ received[<<event[e].dest, e>>] <= refusals' + 1
                        /\ ~ Succeeded(e)' => received[<<event[e].dest, e>>] <= refusals'
    BY <1>n, <1>1
<1> QED BY <1>2 DEF OutboxInv, ReceiptsCounted

\* A worker that loses its batch, and perhaps is started with another destination.
LEMMA LosesKeep == ASSUME OutboxInv, NEW p, UNCHANGED <<event, received>>, Adverse,
                          poster' = [w \in Posters |-> IF w = p THEN Resting ELSE poster[w]],
                          endpoint' \in [Processes -> Endpoints],
                          \A q \in Processes : q # p => endpoint'[q] = endpoint[q]
                   PROVE  OutboxInv'
<1>1. refusals' = refusals + 1 /\ refusals' \in Nat
    BY AdverseCounts
<1>2. poster' \in [Posters -> PosterState]
    BY DEF OutboxInv, OutboxTypes, Resting, PosterState
<1>3. OutboxTypes'
    BY <1>1, <1>2 DEF OutboxInv, OutboxTypes
<1>4. \A w \in Posters : \/ poster'[w] = Resting /\ Locked(w)' = {}
                         \/ /\ poster'[w] = poster[w] /\ Locked(w)' = Locked(w)
                            /\ endpoint'[w] = endpoint[w]
    BY DEF Locked, Resting, Processes
<1>5. BatchesApart'
  <2>1. \A w, v \in Posters : \A e \in Locked(w)' \cap Locked(v)' : w = v
      BY <1>4 DEF OutboxInv, BatchesApart, BatchRight
  <2>2. ASSUME NEW w \in Posters, poster'[w] = Resting, Locked(w)' = {}
        PROVE  BatchRight(w)'
      BY <2>2 DEF Resting, BatchRight
  <2>3. ASSUME NEW w \in Posters, poster'[w] = poster[w], Locked(w)' = Locked(w),
               endpoint'[w] = endpoint[w]
        PROVE  BatchRight(w)'
      BY <2>3 DEF OutboxInv, BatchesApart, BatchRight
  <2> QED BY <1>4, <2>1, <2>2, <2>3 DEF BatchesApart
<1>6. ReceiptsCounted'
    BY <1>1, CountsKept
<1> QED BY <1>3, <1>5, <1>6 DEF OutboxInv

\* Only other things change, or a row falls due.
LEMMA DueKeeps == ASSUME OutboxInv, UNCHANGED <<endpoint, poster, received>>,
                         event' \in [Events -> EventRow], refusals' \in {refusals, refusals + 1},
                         \A e \in Events : event'[e].state = event[e].state
                                             /\ event'[e].dest = event[e].dest
                  PROVE  OutboxInv'
<1>1. OutboxTypes'
    BY DEF OutboxInv, OutboxTypes
<1>2. \A w \in Posters : Locked(w)' = Locked(w) /\ Locked(w) \subseteq Events
                           /\ poster[w].todo \cup poster[w].done \subseteq Events
    BY DEF Locked, OutboxInv, OutboxTypes, PosterState
<1>3. BatchesApart'
    BY <1>2 DEF OutboxInv, BatchesApart, BatchRight
<1>4. \A e \in Events : /\ received[<<event[e].dest, e>>] \in Nat
                        /\ refusals \in Nat
  <2>1. \A e \in Events : event[e].dest \in Endpoints
      BY DEF OutboxInv, OutboxTypes, EventRow
  <2> QED BY <2>1 DEF OutboxInv, OutboxTypes
<1>5. \A e \in Events : /\ received[<<event[e].dest, e>>] <= refusals + 1
                        /\ ~ Succeeded(e) => received[<<event[e].dest, e>>] <= refusals
    BY DEF OutboxInv, ReceiptsCounted
<1>6. \A e \in Events : /\ received[<<event[e].dest, e>>] <= refusals' + 1
                        /\ ~ Succeeded(e) => received[<<event[e].dest, e>>] <= refusals'
    BY <1>4, <1>5
<1>7. \A e \in Events : Succeeded(e)' <=> Succeeded(e)
    BY DEF Succeeded
<1>8. ReceiptsCounted'
    BY <1>6, <1>7 DEF OutboxInv, ReceiptsCounted
<1> QED BY <1>1, <1>3, <1>8 DEF OutboxInv

\* A batch is taken from rows that nobody has.
LEMMA TakenKeeps == ASSUME OutboxInv, NEW w \in Posters, BatchTaken(w) PROVE OutboxInv'
<1>1. PICK batch \in SUBSET Takeable :
        poster' = [poster EXCEPT ![w].todo = Mine(w, batch), ![w].revoke = batch \ Mine(w, batch)]
    BY DEF BatchTaken
<1> DEFINE mine == Mine(w, batch)
<1>2. UNCHANGED <<event, endpoint, received, refusals>> /\ Locked(w) = {}
    BY DEF BatchTaken, AtWork
<1>3. batch \subseteq Events /\ mine \subseteq batch
      /\ \A e \in batch : event[e].state = "pending" /\ \A v \in Posters : e \notin Locked(v)
    BY DEF Takeable, Mine
<1>4. poster[w] \in PosterState /\ poster[w].done = {} /\ poster[w].later = {}
    BY <1>2 DEF OutboxInv, OutboxTypes, Locked
<1> DEFINE row == [poster[w] EXCEPT !.todo = mine, !.revoke = batch \ mine]
<1>5. poster' = [poster EXCEPT ![w] = row]
    BY <1>1, <1>4
<1>6. /\ row \in PosterState /\ row.todo = mine /\ row.revoke = batch \ mine
      /\ row.done = {} /\ row.later = {}
    BY <1>3, <1>4 DEF PosterState
<1>7. poster' \in [Posters -> PosterState] /\ poster'[w] = row
      /\ \A v \in Posters : v # w => poster'[v] = poster[v]
    BY <1>5, <1>6 DEF OutboxInv, OutboxTypes
<1>8. OutboxTypes'
    BY <1>2, <1>7 DEF OutboxInv, OutboxTypes
<1>9. Locked(w)' = batch /\ \A v \in Posters : v # w => Locked(v)' = Locked(v)
    BY <1>3, <1>6, <1>7 DEF Locked
<1>10. BatchesApart'
  <2>1. \A u, v \in Posters : \A e \in Locked(u)' \cap Locked(v)' : u = v
      BY <1>3, <1>9 DEF OutboxInv, BatchesApart, BatchRight
  <2>2. \A e \in mine : event[e].dest = endpoint[w]
      BY DEF Mine
  <2>3. \A e \in Locked(w)' : event'[e].state = "pending"
      BY <1>2, <1>3, <1>9
  <2>4. \A e \in poster'[w].todo \cup poster'[w].done : event'[e].dest = endpoint'[w]
      BY <1>2, <1>6, <1>7, <2>2
  <2>5. /\ poster'[w].todo \cap poster'[w].done = {}
        /\ poster'[w].todo \cap poster'[w].later = {}
        /\ poster'[w].done \cap poster'[w].later = {}
        /\ poster'[w].revoke \cap (poster'[w].todo \cup poster'[w].done
                                     \cup poster'[w].later) = {}
        /\ poster'[w].done = {}
      BY <1>6, <1>7
  <2>6. ASSUME NEW v \in Posters, v # w
        PROVE  BatchRight(v)'
      BY <2>6, <1>2, <1>7, <1>9 DEF OutboxInv, BatchesApart, BatchRight
  <2> QED BY <2>1, <2>3, <2>4, <2>5, <2>6 DEF BatchesApart, BatchRight
<1>11. \A e \in Events : Succeeded(e) => Succeeded(e)'
    BY <1>2, <1>4, <1>7 DEF Succeeded
<1>12. ReceiptsCounted'
    BY <1>2, <1>8, <1>11, CountsKept DEF OutboxTypes
<1> QED BY <1>8, <1>10, <1>12 DEF OutboxInv

\* One row of a batch moves on, while rows and destinations stay.
LEMMA MovesOn == ASSUME OutboxInv, NEW w \in Posters, NEW e \in poster[w].todo, NEW row \in PosterState,
                        poster' = [poster EXCEPT ![w] = row], UNCHANGED <<event, endpoint>>,
                        \/ row = [poster[w] EXCEPT !.todo = @ \ {e}, !.done = @ \cup {e}]
                             /\ received'[<<event[e].dest, e>>] > 0
                        \/ row = [poster[w] EXCEPT !.todo = @ \ {e}, !.later = @ \cup {e}],
                        \A x \in Endpoints \X Events : received[x] > 0 => received'[x] > 0
                 PROVE  BatchesApart' /\ poster' \in [Posters -> PosterState]
<1>1. poster[w] \in PosterState /\ poster' \in [Posters -> PosterState] /\ poster'[w] = row
      /\ \A v \in Posters : v # w => poster'[v] = poster[v] /\ Locked(v)' = Locked(v)
    BY DEF OutboxInv, OutboxTypes, Locked
<1>2. /\ row.todo = poster[w].todo \ {e} /\ row.revoke = poster[w].revoke
      /\ row.done \cup row.later = poster[w].done \cup poster[w].later \cup {e}
      /\ \/ row.done = poster[w].done \cup {e} /\ row.later = poster[w].later
              /\ received'[<<event[e].dest, e>>] > 0
         \/ row.done = poster[w].done /\ row.later = poster[w].later \cup {e}
    BY <1>1 DEF PosterState
<1>3. Locked(w)' = Locked(w)
    BY <1>1, <1>2 DEF Locked
<1>4. \A u, v \in Posters : \A f \in Locked(u)' \cap Locked(v)' : u = v
    BY <1>1, <1>3 DEF OutboxInv, BatchesApart
<1>5. BatchRight(w) /\ \A v \in Posters : BatchRight(v)
    BY DEF OutboxInv, BatchesApart
<1>6. \A v \in Posters : \A f \in poster[v].done : <<event[f].dest, f>> \in Endpoints \X Events
    BY DEF OutboxInv, OutboxTypes, EventRow, PosterState
<1>7. BatchRight(w)'
  <2>1. /\ row.todo \cap row.done = {} /\ row.todo \cap row.later = {}
        /\ row.done \cap row.later = {}
        /\ row.revoke \cap (row.todo \cup row.done \cup row.later) = {}
      BY <1>2, <1>5 DEF BatchRight
  <2>2. \A f \in Locked(w)' : event'[f].state = "pending"
      BY <1>3, <1>5 DEF BatchRight
  <2>3. \A f \in row.todo \cup row.done : event'[f].dest = endpoint'[w]
      BY <1>2, <1>5 DEF BatchRight
  <2>4. \A f \in row.done : received'[<<event'[f].dest, f>>] > 0
      BY <1>2, <1>5, <1>6 DEF BatchRight
  <2> QED BY <1>1, <2>1, <2>2, <2>3, <2>4 DEF BatchRight
<1>8. ASSUME NEW v \in Posters, v # w PROVE BatchRight(v)'
    BY <1>8, <1>1, <1>5, <1>6 DEF BatchRight
<1> QED BY <1>1, <1>4, <1>7, <1>8 DEF BatchesApart

\* A post is accepted or refused, and the worker hears so or not.
LEMMA PostedKeeps == ASSUME OutboxInv, NEW w \in Posters, NEW e \in Events, Posted(w, e)
                     PROVE  OutboxInv'
<1> DEFINE d == endpoint[w]
           n == received[<<d, e>>]
<1>0. UNCHANGED <<event, endpoint>> /\ e \in poster[w].todo /\ poster[w] \in PosterState
    BY DEF Posted, OutboxInv, OutboxTypes
<1>1. event[e].dest = d /\ event[e].state = "pending" /\ BatchRight(w) /\ d \in Endpoints
    BY <1>0 DEF OutboxInv, OutboxTypes, BatchesApart, BatchRight, Locked, Processes
<1>2. ~ Succeeded(e)
  <2>1. \A v \in Posters : e \in poster[v].done => v = w
      BY <1>0 DEF OutboxInv, BatchesApart, Locked
  <2>2. e \notin poster[w].done
      BY <1>0, <1>1 DEF BatchRight
  <2> QED BY <1>1, <2>1, <2>2 DEF Succeeded
<1>3. n \in Nat /\ n <= refusals /\ refusals \in Nat
    BY <1>1, <1>2 DEF OutboxInv, OutboxTypes, ReceiptsCounted
<1> DEFINE told == [poster[w] EXCEPT !.todo = @ \ {e}, !.done = @ \cup {e}]
           missed == [poster[w] EXCEPT !.todo = @ \ {e}, !.later = @ \cup {e}]
<1>4. /\ told \in PosterState /\ missed \in PosterState
      /\ told.done = poster[w].done \cup {e} /\ missed.done = poster[w].done
    BY <1>0 DEF PosterState
<1>5. /\ poster' = [poster EXCEPT ![w].todo = @ \ {e}, ![w].done = @ \cup {e}]
           => poster' = [poster EXCEPT ![w] = told]
      /\ poster' = [poster EXCEPT ![w].todo = @ \ {e}, ![w].later = @ \cup {e}]
           => poster' = [poster EXCEPT ![w] = missed]
    BY DEF OutboxInv, OutboxTypes
<1>6. received' = [received EXCEPT ![<<d, e>>] = @ + 1]
        => /\ received' \in [Endpoints \X Events -> Nat] /\ received'[<<d, e>>] = n + 1
           /\ \A f \in Events, x \in Endpoints :
                <<x, f>> # <<d, e>> => received'[<<x, f>>] = received[<<x, f>>]
    BY <1>1, <1>3 DEF OutboxInv, OutboxTypes
<1>7. CASE received' = [received EXCEPT ![<<d, e>>] = @ + 1] /\ poster' = [poster EXCEPT ![w] = told]
             /\ refusals' = refusals
  <2>1. /\ received'[<<event[e].dest, e>>] > 0
        /\ \A x \in Endpoints \X Events : received[x] > 0 => received'[x] > 0
      BY <1>1, <1>3, <1>6, <1>7 DEF OutboxInv, OutboxTypes
  <2>2. BatchesApart' /\ poster' \in [Posters -> PosterState]
      BY <1>0, <1>4, <1>7, <2>1, MovesOn
  <2>3. OutboxTypes'
      BY <1>0, <1>6, <1>7, <2>2 DEF OutboxInv, OutboxTypes
  <2>4. poster'[w] = told /\ \A v \in Posters : v # w => poster'[v] = poster[v]
      BY <1>7 DEF OutboxInv, OutboxTypes
  <2>5. Succeeded(e)' /\ \A f \in Events : Succeeded(f) => Succeeded(f)'
      BY <1>0, <1>4, <2>4 DEF Succeeded
  <2>6. n + 1 <= refusals' + 1 /\ n + 1 > 0
      BY <1>3, <1>7
  <2>7. ReceiptsCounted'
    <3>1. \A f \in Events : event[f].dest \in Endpoints
        BY DEF OutboxInv, OutboxTypes, EventRow
    <3>2. \A f \in Events : f # e => \A x \in Endpoints : received'[<<x, f>>] = received[<<x, f>>]
        BY <1>6, <1>7
    <3>3. \A x \in Endpoints : received'[<<x, e>>] > 0 => x = d
        BY <1>1, <1>6, <1>7 DEF OutboxInv, ReceiptsCounted
    <3> QED BY <1>0, <1>1, <1>6, <1>7, <2>5, <2>6, <3>1, <3>2, <3>3 DEF OutboxInv, ReceiptsCounted
  <2> QED BY <2>2, <2>3, <2>7 DEF OutboxInv
<1>8. CASE received' = [received EXCEPT ![<<d, e>>] = @ + 1] /\ poster' = [poster EXCEPT ![w] = missed]
             /\ Adverse
  <2>1. \A x \in Endpoints \X Events : received[x] > 0 => received'[x] > 0
      BY <1>1, <1>3, <1>6, <1>8 DEF OutboxInv, OutboxTypes
  <2>2. BatchesApart' /\ poster' \in [Posters -> PosterState]
      BY <1>0, <1>4, <1>8, <2>1, MovesOn
  <2>r. refusals' = refusals + 1 /\ refusals' \in Nat
      BY <1>8, AdverseCounts
  <2>3. OutboxTypes'
      BY <1>0, <1>6, <1>8, <2>2, <2>r DEF OutboxInv, OutboxTypes
  <2>4. n + 1 <= refusals' + 1 /\ n + 1 <= refusals' /\ n + 1 > 0
      BY <1>3, <2>r
  <2>5. ReceiptsCounted'
    <3>1. \A f \in Events : event[f].dest \in Endpoints
        BY DEF OutboxInv, OutboxTypes, EventRow
    <3>2. \A f \in Events : f # e => \A x \in Endpoints : received'[<<x, f>>] = received[<<x, f>>]
        BY <1>6, <1>8
    <3>3. \A x \in Endpoints : received'[<<x, e>>] > 0 => x = d
        BY <1>1, <1>6, <1>8 DEF OutboxInv, ReceiptsCounted
    <3>4. \A f \in Events : received[<<event[f].dest, f>>] \in Nat /\ refusals \in Nat
        BY <3>1 DEF OutboxInv, OutboxTypes
    <3>5. \A f \in Events : received[<<event[f].dest, f>>] <= refusals + 1
        BY DEF OutboxInv, ReceiptsCounted
    <3>6. \A f \in Events : /\ received[<<event[f].dest, f>>] <= refusals' + 1
                            /\ received[<<event[f].dest, f>>] <= refusals'
        BY <3>4, <3>5, <2>r
    <3> QED BY <1>0, <1>1, <1>6, <1>8, <2>4, <3>1, <3>2, <3>3, <3>6 DEF OutboxInv, ReceiptsCounted
  <2> QED BY <2>2, <2>3, <2>5 DEF OutboxInv
<1>9. CASE received' = received /\ poster' = [poster EXCEPT ![w] = missed] /\ Adverse
  <2>1. BatchesApart' /\ poster' \in [Posters -> PosterState]
      BY <1>0, <1>4, <1>9, MovesOn
  <2>2. refusals' = refusals + 1 /\ refusals' \in Nat
      BY <1>9, AdverseCounts
  <2>3. OutboxTypes'
      BY <1>0, <1>9, <2>1, <2>2 DEF OutboxInv, OutboxTypes
  <2>4. ReceiptsCounted'
      BY <1>0, <1>9, <2>2, CountsKept
  <2> QED BY <2>1, <2>3, <2>4 DEF OutboxInv
<1> QED BY <1>5, <1>7, <1>8, <1>9 DEF Posted

\* The commit of a batch: what was accepted is delivered.
LEMMA SavedKeeps == ASSUME OutboxInv, NEW w \in Posters, BatchSaved(w) PROVE OutboxInv'
<1>0. UNCHANGED <<endpoint, received, refusals>> /\ poster[w] \in PosterState /\ BatchRight(w)
    BY DEF BatchSaved, OutboxInv, OutboxTypes, BatchesApart
<1>1. poster' = [poster EXCEPT ![w] = Resting]
    BY DEF BatchSaved
<1>2. poster' \in [Posters -> PosterState] /\ poster'[w] = Resting /\ Locked(w)' = {}
      /\ \A v \in Posters : v # w => poster'[v] = poster[v] /\ Locked(v)' = Locked(v)
    BY <1>1 DEF OutboxInv, OutboxTypes, Resting, PosterState, Locked
<1>3. \A e \in Events : event[e] \in EventRow
    BY DEF OutboxInv, OutboxTypes
<1>4. ASSUME NEW e \in Events
      PROVE  /\ event'[e] \in EventRow /\ event'[e].dest = event[e].dest
             /\ event'[e].state = "none" <=> event[e].state = "none"
             /\ e \notin Locked(w) => event'[e] = event[e]
             /\ event'[e].state = "delivered" => event[e].state = "delivered" \/ e \in poster[w].done
             /\ e \in poster[w].done => event'[e].state = "delivered"
             /\ event[e].state = "delivered" => event'[e].state = "delivered"
  <2> DEFINE r == event[e]
  <2>1. /\ [r EXCEPT !.state = "delivered"] \in EventRow
        /\ [r EXCEPT !.state = "delivered"].state = "delivered"
        /\ [r EXCEPT !.state = "delivered"].dest = r.dest
        /\ [r EXCEPT !.state = "revoked"] \in EventRow
        /\ [r EXCEPT !.state = "revoked"].state = "revoked"
        /\ [r EXCEPT !.state = "revoked"].dest = r.dest
        /\ [r EXCEPT !.due = FALSE] \in EventRow
        /\ [r EXCEPT !.due = FALSE].state = r.state
        /\ [r EXCEPT !.due = FALSE].dest = r.dest
      BY <1>3 DEF EventRow
  <2>2. e \in Locked(w) => r.state = "pending"
      BY <1>0 DEF BatchRight
  <2>3. event'[e] = IF e \in poster[w].done THEN [r EXCEPT !.state = "delivered"]
                    ELSE IF e \in poster[w].revoke THEN [r EXCEPT !.state = "revoked"]
                    ELSE IF e \in poster[w].later THEN [r EXCEPT !.due = FALSE]
                    ELSE r
      BY DEF BatchSaved
  <2>4. CASE e \in poster[w].done
      BY <2>1, <2>2, <2>3, <2>4 DEF Locked
  <2>5. CASE e \notin poster[w].done /\ e \in poster[w].revoke
      BY <2>1, <2>2, <2>3, <2>5 DEF Locked
  <2>6. CASE e \notin poster[w].done /\ e \notin poster[w].revoke /\ e \in poster[w].later
      BY <2>1, <2>2, <2>3, <2>6 DEF Locked
  <2>7. CASE e \notin poster[w].done /\ e \notin poster[w].revoke /\ e \notin poster[w].later
      BY <1>3, <2>3, <2>7
  <2> QED BY <2>4, <2>5, <2>6, <2>7
<1>5. event' \in [Events -> EventRow]
  <2>1. event' = [e \in Events |-> event'[e]]
      BY DEF BatchSaved
  <2> QED BY <1>4, <2>1
<1>6. OutboxTypes'
    BY <1>0, <1>2, <1>5 DEF OutboxInv, OutboxTypes
<1>7. BatchesApart'
  <2>1. \A u, v \in Posters : \A e \in Locked(u)' \cap Locked(v)' : u = v
      BY <1>2 DEF OutboxInv, BatchesApart
  <2>2. BatchRight(w)'
      BY <1>2 DEF BatchRight, Resting
  <2>3. ASSUME NEW v \in Posters, v # w PROVE BatchRight(v)'
    <3>1. BatchRight(v) /\ Locked(v) \subseteq Events
        BY DEF OutboxInv, BatchesApart, OutboxTypes, PosterState, Locked
    <3>2. \A e \in Locked(v) : e \notin Locked(w)
        BY <2>3 DEF OutboxInv, BatchesApart
    <3>3. \A e \in Locked(v) : event'[e] = event[e]
        BY <1>4, <3>1, <3>2
    <3>4. poster[v].todo \cup poster[v].done \subseteq Locked(v)
        BY DEF Locked
    <3> QED BY <1>0, <1>2, <2>3, <3>1, <3>3, <3>4 DEF BatchRight
  <2> QED BY <2>1, <2>2, <2>3 DEF BatchesApart
<1>8. ReceiptsCounted'
  <2>1. \A e \in Events : Succeeded(e) => Succeeded(e)'
    <3> SUFFICES ASSUME NEW e \in Events, Succeeded(e) PROVE Succeeded(e)'
        OBVIOUS
    <3>1. CASE event[e].state = "delivered"
        BY <1>4, <3>1 DEF Succeeded
    <3>2. CASE e \in poster[w].done
        BY <1>4, <3>2 DEF Succeeded
    <3>3. CASE \E v \in Posters : v # w /\ e \in poster[v].done
        BY <1>2, <3>3 DEF Succeeded
    <3> QED BY <3>1, <3>2, <3>3 DEF Succeeded
  <2>2. \A e \in Events : e \in poster[w].done => received[<<event[e].dest, e>>] > 0
      BY <1>0 DEF BatchRight
  <2>3. ASSUME NEW e \in Events
        PROVE  (/\ event[e].state = "none" => \A d \in Endpoints : received[<<d, e>>] = 0
                /\ event[e].state = "delivered" => received[<<event[e].dest, e>>] > 0
                /\ \A d \in Endpoints : received[<<d, e>>] > 0 => event[e].dest = d
                /\ received[<<event[e].dest, e>>] <= refusals + 1
                /\ ~ Succeeded(e) => received[<<event[e].dest, e>>] <= refusals)'
      BY <1>0, <1>4, <2>1, <2>2 DEF OutboxInv, ReceiptsCounted
  <2> QED BY <2>3 DEF ReceiptsCounted
<1> QED BY <1>6, <1>7, <1>8 DEF OutboxInv

LEMMA OutboxInvStep == OutboxInv /\ [NextOutbox]_outboxVars => OutboxInv'
<1> SUFFICES ASSUME OutboxInv, [NextOutbox]_outboxVars PROVE OutboxInv'
    OBVIOUS
<1>0. refusals \in Nat /\ (Adverse => refusals' = refusals + 1 /\ refusals' \in Nat)
    BY AdverseCounts DEF OutboxInv, OutboxTypes
<1>1. ASSUME NEW e \in Events, Added(e), UNCHANGED <<endpoint, poster, received>>,
             Adverse \/ refusals' = refusals
      PROVE  OutboxInv'
  <2>1. refusals' \in Nat /\ refusals' >= refusals
      BY <1>0, <1>1
  <2> QED BY <1>1, <2>1, AddedKeeps
<1>2. ASSUME NEW m \in Notes, NEW k \in Kinds, MessageSaved(m, k) PROVE OutboxInv'
    BY <1>1, <1>2 DEF MessageSaved, Events
<1>3. ASSUME NEW m \in Notes, MediaSaved(m) PROVE OutboxInv'
    BY <1>1, <1>3, OutboxConstants DEF MediaSaved, Events, OutboxConstants
<1>4. ASSUME NEW on \in BOOLEAN, ChatSelection(on) PROVE OutboxInv'
  <2>1. event' = event /\ refusals' \in {refusals, refusals + 1}
      BY <1>0, <1>4 DEF ChatSelection
  <2> QED BY <1>4, <2>1, DueKeeps DEF ChatSelection, OutboxInv, OutboxTypes
<1>5. ASSUME NEW p \in Processes, NEW x \in Endpoints, Reconfigured(p, x) PROVE OutboxInv'
  <2>1. endpoint' \in [Processes -> Endpoints]
        /\ \A q \in Processes : q # p => endpoint'[q] = endpoint[q]
      BY <1>5 DEF Reconfigured, OutboxInv, OutboxTypes
  <2> QED BY <1>5, <2>1, LosesKeep DEF Reconfigured
<1>6. ASSUME NEW w \in Posters, BatchLost(w) PROVE OutboxInv'
  <2>1. poster' = [v \in Posters |-> IF v = w THEN Resting ELSE poster[v]]
      BY <1>6 DEF BatchLost, OutboxInv, OutboxTypes
  <2>2. endpoint' = endpoint /\ endpoint \in [Processes -> Endpoints]
      BY <1>6 DEF BatchLost, OutboxInv, OutboxTypes
  <2> QED BY <1>6, <2>1, <2>2, LosesKeep DEF BatchLost
<1>7. ASSUME NEW e \in Events, FallsDue(e) PROVE OutboxInv'
  <2>1. event[e] \in EventRow /\ event' = [event EXCEPT ![e] = [event[e] EXCEPT !.due = TRUE]]
      BY <1>7 DEF FallsDue, OutboxInv, OutboxTypes
  <2>2. /\ [event[e] EXCEPT !.due = TRUE] \in EventRow
        /\ [event[e] EXCEPT !.due = TRUE].state = event[e].state
        /\ [event[e] EXCEPT !.due = TRUE].dest = event[e].dest
      BY <2>1 DEF EventRow
  <2>3. event' \in [Events -> EventRow]
        /\ \A f \in Events : event'[f].state = event[f].state /\ event'[f].dest = event[f].dest
      BY <2>1, <2>2 DEF OutboxInv, OutboxTypes
  <2> QED BY <1>7, <2>3, DueKeeps DEF FallsDue
<1>8. CASE UNCHANGED outboxVars
  <2>1. UNCHANGED <<event, endpoint, poster, received, refusals>>
      BY <1>8 DEF outboxVars
  <2> QED BY <2>1, DueKeeps DEF OutboxInv, OutboxTypes
<1> QED BY <1>2, <1>3, <1>4, <1>5, <1>6, <1>7, <1>8, TakenKeeps, PostedKeeps, SavedKeeps
    DEF NextOutbox

\* Posts go where the row says, a delivered event was accepted, and repeats are paid for
\* with lost answers, batches and restarts (deliver_batch), for any number of workers.
THEOREM DeliveriesAreQuiet == OutboxSpec => []DeliveredIsQuiet
<1>1. OutboxInv => DeliveredIsQuiet
  <2> SUFFICES ASSUME OutboxInv PROVE DeliveredIsQuiet
      OBVIOUS
  <2>1. \A w \in Posters : \A e \in poster[w].todo : event[e].state = "pending"
      BY DEF OutboxInv, BatchesApart, BatchRight, Locked
  <2>2. refusals + 1 = 1 + refusals
      BY DEF OutboxInv, OutboxTypes
  <2> QED BY <2>1, <2>2 DEF OutboxInv, ReceiptsCounted, DeliveredIsQuiet
<1> QED BY <1>1, OutboxInit, OutboxInvStep, PTL DEF OutboxSpec

-----------------------------------------------------------------------------
(* The digest.                                                                 *)

WriterState == [at : {"idle", "generating", "flushing", "flushed", "given"},
                text : 0..MaxTexts, role : {"task", "request", "bot"}, sent : BOOLEAN]

\* Before a text is stored one insert at most is open; afterwards everybody who goes on has
\* the stored text.  What was sent is stored, its insert is open, or its task was lost.
WritersAgree ==
    /\ \A w \in Writers :
         /\ writer[w].at = "given" => digest # 0
         /\ writer[w].at = "flushed" => digest = 0
         /\ writer[w].at \in {"flushing", "flushed"} => writer[w].text # 0
         /\ writer[w].sent => writer[w].role = "task" /\ writer[w].at \in {"flushed", "given"}
    /\ \A v, w \in Writers : writer[v].at = "flushed" /\ writer[w].at = "flushed" => v = w
    /\ \A t \in sent : \/ t = digest \/ t \in void
                       \/ \E w \in Writers : writer[w].at = "flushed" /\ writer[w].sent
                                             /\ writer[w].text = t

DigestInv == DigestTypeOK /\ WritersAgree /\ SentIsStored

LEMMA DigestInit == ASSUME InitDigest PROVE DigestInv
<1> USE DigestConstants DEF InitDigest, Idle
<1>1. DigestTypeOK
    BY DEF DigestTypeOK
<1>2. WritersAgree /\ SentIsStored
    BY FS_EmptySet DEF WritersAgree, SentIsStored
<1> QED BY <1>1, <1>2 DEF DigestInv

\* The texts are finitely many.
LEMMA OpenTexts == ASSUME DigestTypeOK PROVE IsFiniteSet(void) /\ Cardinality(void) \in Nat
<1>1. IsFiniteSet(1..MaxTexts)
    BY DigestConstants, FS_Interval
<1> QED BY <1>1, FS_Subset, FS_CardinalityType DEF DigestTypeOK

\* One writer moves, and nothing is stored or sent.
LEMMA WriterMoves ==
    ASSUME DigestInv, NEW w \in Writers, NEW r \in WriterState, writer' = [writer EXCEPT ![w] = r],
           UNCHANGED <<digest, sent, void>>, texts' \in 0..MaxTexts, lost' \in 0..MaxLost,
           lost <= lost',
           writer[w].at = "flushed" /\ writer[w].sent
             => r.at = "flushed" /\ r.sent /\ r.text = writer[w].text,
           r.at = "given" => digest # 0 /\ r.text = digest,
           r.at = "flushed" => digest = 0 /\ (writer[w].at = "flushed" \/ ~ Pending(w)),
           r.at \in {"flushing", "flushed"} => r.text # 0,
           r.sent => r.role = "task" /\ r.at \in {"flushed", "given"}
    PROVE  DigestInv'
<1>1. writer \in [Writers -> WriterState] /\ writer' \in [Writers -> WriterState]
    BY DEF DigestInv, DigestTypeOK, WriterState
<1>2. writer'[w] = r /\ \A v \in Writers : v # w => writer'[v] = writer[v]
    BY <1>1
<1>3. DigestTypeOK'
    BY <1>1 DEF DigestInv, DigestTypeOK, WriterState
<1>4. \A t \in sent : t = digest \/ t \in void
                      \/ \E v \in Writers : writer'[v].at = "flushed" /\ writer'[v].sent /\ writer'[v].text = t
  <2>1. ASSUME NEW t \in sent, t # digest, t \notin void
        PROVE  \E v \in Writers : writer'[v].at = "flushed" /\ writer'[v].sent /\ writer'[v].text = t
    <3>1. PICK v \in Writers : writer[v].at = "flushed" /\ writer[v].sent /\ writer[v].text = t
        BY <2>1 DEF DigestInv, WritersAgree
    <3> QED BY <1>2, <3>1
  <2> QED BY <2>1
<1>5. WritersAgree'
    BY <1>2, <1>4 DEF DigestInv, WritersAgree, Pending
<1>6. Cardinality(void)' <= lost'
    BY OpenTexts DEF DigestInv, SentIsStored, DigestTypeOK
<1>7. SentIsStored'
    BY <1>2, <1>4, <1>6 DEF DigestInv, SentIsStored
<1> QED BY <1>3, <1>5, <1>7 DEF DigestInv

LEMMA WriterRests == Idle \in WriterState /\ Idle.at = "idle" /\ ~ Idle.sent
    BY DigestConstants DEF Idle, WriterState

LEMMA DigestLooks == ASSUME DigestInv, NEW w \in Writers, Looks(w) PROVE DigestInv'
<1>1. PICK role \in {"task", "request", "bot"} :
        \/ /\ digest # 0
           /\ writer' = [writer EXCEPT ![w] = [Idle EXCEPT !.at = "given", !.text = digest, !.role = role]]
        \/ /\ digest = 0
           /\ writer' = [writer EXCEPT ![w] = [Idle EXCEPT !.at = "generating", !.role = role]]
    BY DEF Looks
<1>2. digest \in 0..MaxTexts /\ texts \in 0..MaxTexts /\ lost \in 0..MaxLost
      /\ writer[w].at = "idle"
    BY DEF DigestInv, DigestTypeOK, Looks
<1>3. UNCHANGED <<digest, texts, sent, void, lost>>
    BY DEF Looks
<1>4. CASE digest # 0
  <2> DEFINE r == [Idle EXCEPT !.at = "given", !.text = digest, !.role = role]
  <2>1. r \in WriterState /\ r.at = "given" /\ r.text = digest /\ ~ r.sent
      BY <1>2 DEF Idle, WriterState
  <2>2. writer' = [writer EXCEPT ![w] = r] /\ lost <= lost'
      BY <1>1, <1>2, <1>3, <1>4, DigestConstants
  <2> HIDE DEF r
  <2> QED BY <1>2, <1>3, <1>4, <2>1, <2>2, WriterMoves
<1>5. CASE digest = 0
  <2> DEFINE r == [Idle EXCEPT !.at = "generating", !.role = role]
  <2>1. r \in WriterState /\ r.at = "generating" /\ r.sent = Idle.sent
      BY WriterRests DEF WriterState
  <2>2. writer' = [writer EXCEPT ![w] = r] /\ lost <= lost'
      BY <1>1, <1>2, <1>3, <1>5, DigestConstants
  <2> HIDE DEF r
  <2> QED BY <1>2, <1>3, <1>5, <2>1, <2>2, WriterRests, WriterMoves
<1> QED BY <1>4, <1>5

LEMMA DigestGenerates == ASSUME DigestInv, NEW w \in Writers, Generates(w) PROVE DigestInv'
<1> DEFINE k == texts + 1
           r == [writer[w] EXCEPT !.at = "flushing", !.text = k]
<1>1. writer \in [Writers -> WriterState] /\ texts \in 0..MaxTexts /\ texts < MaxTexts
      /\ lost \in 0..MaxLost /\ writer[w].at = "generating"
    BY DEF DigestInv, DigestTypeOK, WriterState, Generates
<1>2. k \in 0..MaxTexts /\ k # 0
    BY <1>1, DigestConstants
<1>3. texts' = k /\ UNCHANGED <<digest, sent, void, lost>>
    BY DEF Generates
<1> HIDE DEF k
<1>4. r \in WriterState /\ r.at = "flushing" /\ r.text = k /\ r.sent = writer[w].sent
    BY <1>1, <1>2 DEF WriterState
<1>5. ~ writer[w].sent
    BY <1>1 DEF DigestInv, WritersAgree
<1>6. writer' = [writer EXCEPT ![w] = r]
    BY <1>1 DEF Generates, WriterState, k
<1> HIDE DEF r
<1>7. lost <= lost'
    BY <1>1, <1>3, DigestConstants
<1> QED BY <1>1, <1>2, <1>3, <1>4, <1>5, <1>6, <1>7, WriterMoves

LEMMA DigestFlushes == ASSUME DigestInv, NEW w \in Writers, Flushes(w) PROVE DigestInv'
<1>1. /\ writer \in [Writers -> WriterState] /\ texts \in 0..MaxTexts /\ lost \in 0..MaxLost
      /\ digest \in 0..MaxTexts /\ writer[w].at = "flushing" /\ ~ Pending(w)
      /\ UNCHANGED <<digest, texts, sent, void, lost>>
    BY DEF DigestInv, DigestTypeOK, WriterState, Flushes
<1>2. ~ writer[w].sent /\ writer[w].text # 0
    BY <1>1 DEF DigestInv, WritersAgree
<1>3. CASE digest = 0
  <2> DEFINE r == [writer[w] EXCEPT !.at = "flushed"]
  <2>1. r \in WriterState /\ r.at = "flushed" /\ r.text = writer[w].text /\ r.sent = writer[w].sent
      BY <1>1 DEF WriterState
  <2>2. writer' = [writer EXCEPT ![w] = r]
      BY <1>1, <1>3 DEF Flushes, WriterState
  <2>3. lost <= lost'
      BY <1>1, DigestConstants
  <2> HIDE DEF r
  <2> QED BY <1>1, <1>2, <1>3, <2>1, <2>2, <2>3, WriterMoves
<1>4. CASE digest # 0
  <2> DEFINE r == [writer[w] EXCEPT !.at = "given", !.text = digest]
  <2>1. r \in WriterState /\ r.at = "given" /\ r.text = digest /\ r.sent = writer[w].sent
      BY <1>1 DEF WriterState
  <2>2. writer' = [writer EXCEPT ![w] = r]
      BY <1>1, <1>4 DEF Flushes, WriterState
  <2>3. lost <= lost'
      BY <1>1, DigestConstants
  <2> HIDE DEF r
  <2> QED BY <1>1, <1>2, <1>4, <2>1, <2>2, <2>3, WriterMoves
<1> QED BY <1>3, <1>4

LEMMA DigestSends == ASSUME DigestInv, NEW w \in Writers, SendsDigest(w) PROVE DigestInv'
<1> DEFINE r == [writer[w] EXCEPT !.sent = TRUE]
<1>1. /\ writer \in [Writers -> WriterState] /\ texts \in 0..MaxTexts /\ lost \in 0..MaxLost
      /\ writer[w].at \in {"flushed", "given"} /\ writer[w].role = "task"
      /\ sent' = sent \cup {writer[w].text} /\ UNCHANGED <<digest, texts, void, lost>>
    BY DEF DigestInv, DigestTypeOK, WriterState, SendsDigest
<1>2. /\ r \in WriterState /\ r.at = writer[w].at /\ r.text = writer[w].text
      /\ r.role = writer[w].role /\ r.sent
    BY <1>1 DEF WriterState
<1>3. writer' = [writer EXCEPT ![w] = r]
    BY <1>1 DEF SendsDigest, WriterState
<1>4. /\ r.at = "given" => digest # 0 /\ r.text = digest
      /\ r.at = "flushed" => digest = 0 /\ r.text # 0
    BY <1>1, <1>2 DEF DigestInv, WritersAgree, SentIsStored
<1> HIDE DEF r
<1>5. /\ writer'[w] = r /\ writer' \in [Writers -> WriterState]
      /\ \A v \in Writers : v # w => writer'[v] = writer[v]
    BY <1>1, <1>2, <1>3
<1>6. r.text \in 1..MaxTexts
    BY <1>1, <1>2, <1>4, DigestConstants DEF WriterState, DigestInv, DigestTypeOK
<1>7. DigestTypeOK'
    BY <1>1, <1>2, <1>5, <1>6 DEF DigestInv, DigestTypeOK, WriterState
<1>8. \A t \in sent' : t = digest \/ t \in void
                       \/ \E v \in Writers : writer'[v].at = "flushed" /\ writer'[v].sent /\ writer'[v].text = t
  <2>1. ASSUME NEW t \in sent, t # digest, t \notin void
        PROVE  \E v \in Writers : writer'[v].at = "flushed" /\ writer'[v].sent /\ writer'[v].text = t
    <3>1. PICK v \in Writers : writer[v].at = "flushed" /\ writer[v].sent /\ writer[v].text = t
        BY <2>1 DEF DigestInv, WritersAgree
    <3> QED BY <1>2, <1>5, <3>1
  <2>2. \/ r.text = digest
        \/ \E v \in Writers : writer'[v].at = "flushed" /\ writer'[v].sent /\ writer'[v].text = r.text
      BY <1>1, <1>2, <1>4, <1>5
  <2> QED BY <1>1, <1>2, <2>1, <2>2
<1>9. WritersAgree'
    BY <1>1, <1>2, <1>4, <1>5, <1>8 DEF DigestInv, WritersAgree
<1>10. SentIsStored'
    BY <1>1, <1>2, <1>4, <1>5, <1>8 DEF DigestInv, SentIsStored
<1> QED BY <1>7, <1>9, <1>10 DEF DigestInv

LEMMA DigestCommits == ASSUME DigestInv, NEW w \in Writers, Commits(w) PROVE DigestInv'
<1>1. /\ writer \in [Writers -> WriterState] /\ digest \in 0..MaxTexts
      /\ sent \subseteq 1..MaxTexts /\ void \subseteq 1..MaxTexts
      /\ MaxTexts \in Nat /\ writer[w] \in WriterState /\ UNCHANGED <<texts, sent, void, lost>>
      /\ writer' = [writer EXCEPT ![w] = Idle] /\ writer[w].at \in {"flushed", "given"}
      /\ Cardinality(void) <= lost
    BY DigestConstants DEF DigestInv, DigestTypeOK, WriterState, SentIsStored, Commits
<1>2. writer' \in [Writers -> WriterState] /\ writer'[w] = Idle
      /\ \A v \in Writers : v # w => writer'[v] = writer[v]
    BY <1>1, WriterRests
<1>3. CASE writer[w].at = "flushed" /\ writer[w].role # "bot"
  <2>1. digest = 0 /\ writer[w].text # 0 /\ writer[w].text \in 0..MaxTexts
        /\ digest' = writer[w].text
      BY <1>1, <1>3 DEF DigestInv, WritersAgree, WriterState, Commits
  <2>2. \A v \in Writers : v # w => writer[v].at \notin {"given", "flushed"}
      BY <1>3, <2>1 DEF DigestInv, WritersAgree
  <2>3. \A t \in sent : t = digest' \/ t \in void
    <3>1. \A t \in sent : t # 0
        BY <1>1
    <3> QED BY <2>1, <2>2, <3>1 DEF DigestInv, WritersAgree
  <2>4. DigestTypeOK'
      BY <1>1, <1>2, <2>1 DEF DigestInv, DigestTypeOK, WriterState
  <2>5. WritersAgree' /\ SentIsStored'
      BY <1>1, <1>2, <2>1, <2>2, <2>3, WriterRests DEF WritersAgree, SentIsStored, DigestInv
  <2> QED BY <2>4, <2>5 DEF DigestInv
<1>4. CASE ~(writer[w].at = "flushed" /\ writer[w].role # "bot")
  <2>1. digest' = digest
      BY <1>4 DEF Commits
  <2>2. writer[w].sent => writer[w].at # "flushed"
      BY <1>1, <1>4 DEF DigestInv, WritersAgree
  <2>3. \A t \in sent : t = digest \/ t \in void
                        \/ \E v \in Writers : writer'[v].at = "flushed" /\ writer'[v].sent /\ writer'[v].text = t
    <3>1. ASSUME NEW t \in sent, t # digest, t \notin void
          PROVE  \E v \in Writers : writer'[v].at = "flushed" /\ writer'[v].sent /\ writer'[v].text = t
      <4>1. PICK v \in Writers : writer[v].at = "flushed" /\ writer[v].sent /\ writer[v].text = t
          BY <3>1 DEF DigestInv, WritersAgree
      <4> QED BY <1>2, <2>2, <4>1
    <3> QED BY <3>1
  <2>4. DigestTypeOK'
      BY <1>1, <1>2, <2>1 DEF DigestInv, DigestTypeOK, WriterState
  <2>5. WritersAgree' /\ SentIsStored'
      BY <1>1, <1>2, <2>1, <2>3, WriterRests DEF DigestInv, WritersAgree, SentIsStored
  <2> QED BY <2>4, <2>5 DEF DigestInv
<1> QED BY <1>3, <1>4

LEMMA DigestLoses == ASSUME DigestInv, NEW w \in Writers, WriterLost(w) PROVE DigestInv'
<1>1. /\ lost' = lost + 1 /\ lost' \in 0..MaxLost /\ lost \in 0..MaxLost /\ texts \in 0..MaxTexts
      /\ UNCHANGED <<digest, texts, sent>> /\ writer' = [writer EXCEPT ![w] = Idle]
      /\ writer \in [Writers -> WriterState]
    BY DigestConstants DEF DigestInv, DigestTypeOK, WriterLost, Loss, WriterState
<1>2. CASE ~ (writer[w].at = "flushed" /\ writer[w].sent)
  <2>1. void' = void
      BY <1>2 DEF WriterLost
  <2>2. lost <= lost'
      BY <1>1, DigestConstants
  <2> QED BY <1>1, <1>2, <2>1, <2>2, WriterRests, WriterMoves
<1>3. CASE writer[w].at = "flushed" /\ writer[w].sent
  <2>1. void' = void \cup {writer[w].text}
      BY <1>3 DEF WriterLost
  <2>2. writer' \in [Writers -> WriterState] /\ writer'[w] = Idle
        /\ \A v \in Writers : v # w => writer'[v] = writer[v]
      BY <1>1, WriterRests
  <2>3. writer[w].text \in 1..MaxTexts
      BY <1>1, <1>3, DigestConstants DEF DigestInv, WritersAgree, WriterState
  <2>4. Cardinality(void') <= lost'
    <3>1. IsFiniteSet(void) /\ Cardinality(void) \in Nat /\ Cardinality(void) <= lost
        BY OpenTexts DEF DigestInv, SentIsStored
    <3>2. \/ Cardinality(void') = Cardinality(void)
          \/ Cardinality(void') = Cardinality(void) + 1
        BY <2>1, <3>1, FS_AddElement
    <3> QED BY <1>1, <3>1, <3>2
  <2>5. \A t \in sent : t = digest \/ t \in void'
      BY <1>3, <2>1 DEF DigestInv, WritersAgree
  <2>6. DigestTypeOK'
      BY <1>1, <2>1, <2>2, <2>3 DEF DigestInv, DigestTypeOK, WriterState
  <2>7. WritersAgree' /\ SentIsStored'
      BY <1>1, <2>2, <2>4, <2>5, WriterRests DEF DigestInv, WritersAgree, SentIsStored
  <2> QED BY <2>6, <2>7 DEF DigestInv
<1> QED BY <1>2, <1>3

LEMMA DigestInvStep == ASSUME DigestInv, [NextDigest]_digestVars PROVE DigestInv'
<1>1. ASSUME NEW w \in Writers, WriterStep(w) PROVE DigestInv'
    BY <1>1, DigestLooks, DigestGenerates, DigestFlushes, DigestSends, DigestCommits, DigestLoses
       DEF WriterStep
<1>2. CASE UNCHANGED digestVars
    BY <1>2 DEF digestVars, DigestInv, DigestTypeOK, WritersAgree, SentIsStored, Pending
<1> QED BY <1>1, <1>2 DEF NextDigest

\* Whoever generates the digest of a day at the same time, and whatever is lost, the owner
\* is sent the text that is stored (generate_digest: "on_conflict_do_nothing", then the
\* stored row), except for one text at most of each task that is lost between its sending
\* and its commit.
THEOREM OwnersGetTheStoredDigest == DigestSpec => []SentIsStored
<1>1. DigestInv => SentIsStored
    BY DEF DigestInv
<1> QED BY <1>1, DigestInit, DigestInvStep, PTL DEF DigestSpec
-----------------------------------------------------------------------------
(* The agents: their types, which say that the count of errors stays within    *)
(* its limit although overlapping runs overwrite it.                           *)

\* An agent that is not disabled, and whoever began while it was active, has errors left.
ErrorsLeft ==
    /\ agent.status \in {"none", "active"} => agent.errors < ErrorLimit
    /\ \A w \in Runners : runner[w].at # "idle" => runner[w].errors < ErrorLimit
AgentInv == AgentTypeOK /\ ErrorsLeft

AgentRow == [status : {"none", "active", "failed", "deleted"}, cron : BOOLEAN,
             due : BOOLEAN, errors : 0..ErrorLimit]
RunnerState == [at : {"idle", "running", "sent"}, errors : 0..ErrorLimit]

LEMMA AgentInit == InitAgents => AgentInv
<1> SUFFICES ASSUME InitAgents PROVE AgentInv
    OBVIOUS
<1>1. 0 \in 0..ErrorLimit /\ 0 < ErrorLimit /\ 0 \in 0..MaxUpsets
    BY AgentConstants
<1> QED BY <1>1 DEF InitAgents, AgentInv, AgentTypeOK, ErrorsLeft

LEMMA UpsetCounts == ASSUME AgentTypeOK, Upset PROVE upsets' \in 0..MaxUpsets
    BY AgentConstants DEF AgentTypeOK, Upset

\* One worker moves, or the row changes.
LEMMA RunnerMoves ==
    ASSUME AgentInv, NEW w \in Runners, NEW r \in RunnerState, r.at # "idle" => r.errors < ErrorLimit,
           runner' = [runner EXCEPT ![w] = r], agent' \in AgentRow,
           agent'.status \in {"none", "active"} => agent'.errors < ErrorLimit,
           queued' \in Nat, healthy' \in BOOLEAN, upsets' \in 0..MaxUpsets
    PROVE  AgentInv'
<1>1. runner' \in [Runners -> RunnerState] /\ runner'[w] = r
      /\ \A v \in Runners \ {w} : runner'[v] = runner[v]
    BY DEF AgentInv, AgentTypeOK, RunnerState
<1>2. AgentTypeOK'
    BY <1>1 DEF AgentTypeOK, AgentRow, RunnerState
<1>3. ErrorsLeft'
    BY <1>1 DEF AgentInv, ErrorsLeft
<1> QED BY <1>2, <1>3 DEF AgentInv

LEMMA RowMoves ==
    ASSUME AgentInv, runner' = runner, agent' \in AgentRow,
           agent'.status \in {"none", "active"} => agent'.errors < ErrorLimit,
           queued' \in Nat, healthy' \in BOOLEAN, upsets' \in 0..MaxUpsets
    PROVE  AgentInv'
<1>1. AgentTypeOK'
    BY DEF AgentInv, AgentTypeOK, AgentRow
<1>2. ErrorsLeft'
    BY DEF AgentInv, ErrorsLeft
<1> QED BY <1>1, <1>2 DEF AgentInv

LEMMA AgentInvStep == AgentInv /\ [NextAgents]_agentVars => AgentInv'
<1> SUFFICES ASSUME AgentInv, [NextAgents]_agentVars PROVE AgentInv'
    OBVIOUS
<1>t. /\ agent \in AgentRow /\ queued \in Nat /\ runner \in [Runners -> RunnerState]
      /\ healthy \in BOOLEAN /\ upsets \in 0..MaxUpsets
      /\ agent.status \in {"none", "active"} => agent.errors < ErrorLimit
      /\ Upset => upsets' \in 0..MaxUpsets
    BY UpsetCounts DEF AgentInv, AgentTypeOK, AgentRow, RunnerState, ErrorsLeft
<1>l. ErrorLimit \in Nat /\ 0 \in 0..ErrorLimit /\ 0 < ErrorLimit
    BY AgentConstants
<1>i. [at |-> "idle", errors |-> 0] \in RunnerState
    BY <1>l DEF RunnerState
<1>1. CASE AgentCreated
  <2>1. PICK b \in BOOLEAN : agent' = [agent EXCEPT !.status = "active", !.cron = b]
      BY <1>1 DEF AgentCreated
  <2>2. agent' \in AgentRow /\ agent'.errors = agent.errors
      BY <1>t, <2>1 DEF AgentRow
  <2>3. agent.errors < ErrorLimit
      BY <1>1, <1>t DEF AgentCreated, AgentRow, AgentInv
  <2> QED BY <1>1, <1>t, <2>2, <2>3, RowMoves DEF AgentCreated
<1>2. CASE NextRunReached
  <2>1. agent' = [agent EXCEPT !.due = TRUE]
      BY <1>2 DEF NextRunReached
  <2>2. agent' \in AgentRow /\ agent'.errors = agent.errors /\ agent'.status = agent.status
      BY <1>t, <2>1 DEF AgentRow
  <2> QED BY <1>2, <1>t, <2>2, RowMoves DEF NextRunReached
<1>3. CASE RunDueAgents \/ Triggered
  <2>1. queued' \in Nat /\ upsets' \in 0..MaxUpsets /\ UNCHANGED <<agent, runner, healthy>>
      BY <1>3, <1>t DEF RunDueAgents, Triggered
  <2> QED BY <1>t, <2>1, RowMoves
<1>4. CASE AgentDeleted
  <2>1. agent' = [agent EXCEPT !.status = "deleted"]
      BY <1>4 DEF AgentDeleted
  <2>2. agent' \in AgentRow /\ agent'.status = "deleted"
      BY <1>t, <2>1 DEF AgentRow
  <2> QED BY <1>4, <1>t, <2>2, RowMoves DEF AgentDeleted
<1>5. ASSUME NEW w \in Runners, RunBegins(w) PROVE AgentInv'
  <2>1. queued' \in Nat /\ UNCHANGED <<agent, healthy, upsets>>
      BY <1>5, <1>t DEF RunBegins
  <2>2. CASE agent.status = "active"
    <3> DEFINE r == [at |-> "running", errors |-> agent.errors]
    <3>1. r \in RunnerState /\ r.errors < ErrorLimit
        BY <1>t, <2>2 DEF RunnerState, AgentRow
    <3>2. runner' = [runner EXCEPT ![w] = r]
        BY <1>5, <2>2 DEF RunBegins
    <3> HIDE DEF r
    <3> QED BY <1>t, <2>1, <3>1, <3>2, RunnerMoves
  <2>3. CASE agent.status # "active"
      BY <1>5, <1>t, <2>1, <2>3, RowMoves DEF RunBegins
  <2> QED BY <2>2, <2>3
<1>6. ASSUME NEW w \in Runners, RunReports(w) PROVE AgentInv'
  <2> DEFINE r == [runner[w] EXCEPT !.at = "sent"]
  <2>1. r \in RunnerState /\ r.errors = runner[w].errors
      BY <1>t DEF RunnerState
  <2>2. runner[w].errors < ErrorLimit
      BY <1>6 DEF RunReports, AgentInv, ErrorsLeft
  <2>3. runner' = [runner EXCEPT ![w] = r]
      BY <1>6 DEF RunReports
  <2> HIDE DEF r
  <2> QED BY <1>6, <1>t, <2>1, <2>2, <2>3, RunnerMoves DEF RunReports
<1>7. ASSUME NEW w \in Runners, RunSaves(w) PROVE AgentInv'
  <2>1. agent' = [agent EXCEPT !.errors = 0, !.due = agent.due /\ ~ agent.cron]
      BY <1>7 DEF RunSaves
  <2>2. (agent.due /\ ~ agent.cron) \in BOOLEAN
      OBVIOUS
  <2>3. agent' \in AgentRow /\ agent'.errors = 0
      BY <1>t, <1>l, <2>1, <2>2 DEF AgentRow
  <2> QED BY <1>7, <1>t, <1>l, <1>i, <2>3, RunnerMoves DEF RunSaves, Rests
<1>8. ASSUME NEW w \in Runners, RunFails(w) PROVE AgentInv'
  <2> DEFINE n == runner[w].errors + 1
             s == IF n >= ErrorLimit THEN "failed" ELSE agent.status
  <2>1. agent' = [agent EXCEPT !.errors = n, !.status = s]
      BY <1>8 DEF RunFails
  <2>2. runner[w].errors < ErrorLimit
      BY <1>8 DEF RunFails, AgentInv, ErrorsLeft
  <2>3. n \in 0..ErrorLimit
      BY <1>t, <1>l, <2>2 DEF RunnerState
  <2>4. s \in {"none", "active", "failed", "deleted"} /\ (s \in {"none", "active"} => n < ErrorLimit)
      BY <1>t, <1>l, <2>3 DEF AgentRow
  <2> HIDE DEF n, s
  <2>5. agent' \in AgentRow /\ agent'.errors = n /\ agent'.status = s
      BY <1>t, <2>1, <2>3, <2>4 DEF AgentRow
  <2> QED BY <1>8, <1>t, <1>l, <1>i, <2>4, <2>5, RunnerMoves DEF RunFails, Rests
<1>9. ASSUME NEW w \in Runners, RunnerLost(w) PROVE AgentInv'
  <2>1. queued' \in Nat
      BY <1>9, <1>t DEF RunnerLost
  <2> QED BY <1>9, <1>t, <1>i, <2>1, RunnerMoves DEF RunnerLost, Rests
<1>10. CASE LuckChanges
    BY <1>10, <1>t, RowMoves DEF LuckChanges
<1>11. CASE UNCHANGED agentVars
    BY <1>11, <1>t, RowMoves DEF agentVars
<1> QED BY <1>1, <1>2, <1>3, <1>4, <1>5, <1>6, <1>7, <1>8, <1>9, <1>10, <1>11
    DEF NextAgents, RunnerStep

-----------------------------------------------------------------------------
(* The composition.                                                            *)

\* What is left of the outbox's types.
ChatAndRefusals == chatOn \in BOOLEAN /\ refusals \in 0..MaxRefusals

LEMMA ChatInit == InitOutbox => ChatAndRefusals
    BY OutboxConstants DEF InitOutbox, ChatAndRefusals

LEMMA ChatStep == ChatAndRefusals /\ [NextOutbox]_outboxVars => ChatAndRefusals'
<1> SUFFICES ASSUME ChatAndRefusals, [NextOutbox]_outboxVars PROVE ChatAndRefusals'
    OBVIOUS
<1>a. Adverse => refusals' \in 0..MaxRefusals
    BY OutboxConstants DEF Adverse, ChatAndRefusals
<1>1. ASSUME NEW m \in Notes, MediaSaved(m) \/ \E k \in Kinds : MessageSaved(m, k)
      PROVE  ChatAndRefusals'
    BY <1>1, <1>a DEF MediaSaved, MessageSaved, ChatAndRefusals
<1>2. ASSUME NEW on \in BOOLEAN, ChatSelection(on) PROVE ChatAndRefusals'
  <2>1. refusals' \in 0..MaxRefusals
      BY <1>2, <1>a DEF ChatSelection, ChatAndRefusals
  <2> QED BY <1>2, <2>1 DEF ChatSelection, ChatAndRefusals
<1>3. ASSUME NEW p \in Processes, NEW e \in Endpoints, Reconfigured(p, e) PROVE ChatAndRefusals'
    BY <1>3, <1>a DEF Reconfigured, ChatAndRefusals
<1>4. ASSUME NEW w \in Posters, BatchTaken(w) \/ BatchSaved(w) \/ BatchLost(w) PROVE ChatAndRefusals'
    BY <1>4, <1>a DEF BatchTaken, BatchSaved, BatchLost, ChatAndRefusals
<1>5. ASSUME NEW w \in Posters, NEW e \in Events, Posted(w, e) PROVE ChatAndRefusals'
    BY <1>5, <1>a DEF Posted, ChatAndRefusals
<1>6. ASSUME NEW e \in Events, FallsDue(e) PROVE ChatAndRefusals'
    BY <1>6 DEF FallsDue, ChatAndRefusals
<1>7. CASE UNCHANGED outboxVars
    BY <1>7 DEF outboxVars, ChatAndRefusals
<1> QED BY <1>1, <1>2, <1>3, <1>4, <1>5, <1>6, <1>7 DEF NextOutbox

\* A service that runs beside the others is the service by itself.
LEMMA ServicesStep == ASSUME [Next]_vars
                      PROVE  /\ [NextSessions]_sessionVars /\ [NextOutbox]_outboxVars
                             /\ [NextAgents]_agentVars /\ [NextDigest]_digestVars
<1>1. CASE UNCHANGED vars
    BY <1>1 DEF vars
<1>2. CASE Next
    BY <1>2 DEF Next
<1> QED BY <1>1, <1>2

\* What the run of the composition checks, it checks of each service, and each theorem
\* about a service holds of the composition: to it the others are stutters.
THEOREM ServicesAreThemselves == Spec => SessionSpec /\ OutboxSpec /\ DigestSpec
<1>1. Init => InitSessions /\ InitOutbox /\ InitDigest
    BY DEF Init
<1> QED BY <1>1, ServicesStep, PTL DEF Spec, SessionSpec, OutboxSpec, DigestSpec

\* Every variable of the four services holds what the code can write, for any number of
\* sessions, callers, events, workers, runs and texts.
THEOREM ServicesTypesAlways == Spec => []ServicesTypeOK
<1>1. SessionSpec => []SessionTypeOK
    BY SessionTypesAlways
<1>2. Spec => [](OutboxInv /\ ChatAndRefusals)
  <2>1. Init => OutboxInv /\ ChatAndRefusals
      BY OutboxInit, ChatInit DEF Init
  <2>2. OutboxInv /\ ChatAndRefusals /\ [Next]_vars => (OutboxInv /\ ChatAndRefusals)'
      BY ServicesStep, OutboxInvStep, ChatStep
  <2> QED BY <2>1, <2>2, PTL DEF Spec
<1>3. Spec => []AgentInv
  <2>1. Init => AgentInv
      BY AgentInit DEF Init
  <2>2. AgentInv /\ [Next]_vars => AgentInv'
      BY ServicesStep, AgentInvStep
  <2> QED BY <2>1, <2>2, PTL DEF Spec
<1>4. Spec => []DigestInv
  <2>1. Init => DigestInv
      BY DigestInit DEF Init
  <2>2. DigestInv /\ [Next]_vars => DigestInv'
      BY ServicesStep, DigestInvStep
  <2> QED BY <2>1, <2>2, PTL DEF Spec
<1>5. SessionTypeOK /\ OutboxInv /\ ChatAndRefusals /\ AgentInv /\ DigestInv => ServicesTypeOK
    BY DEF OutboxInv, OutboxTypes, EventRow, PosterState, ChatAndRefusals, OutboxTypeOK,
           AgentInv, DigestInv, ServicesTypeOK
<1> QED BY <1>1, <1>2, <1>3, <1>4, <1>5, ServicesAreThemselves, PTL
=============================================================================
