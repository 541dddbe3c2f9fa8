------------------------ MODULE CommandListenerProofs ------------------------
(***************************************************************************)
(* What holds of CommandListener for every value of its constants: type    *)
(* correctness, that repeated dispatches of a command are a dedup key's    *)
(* life apart, the refinement of CommandDelivery, that a row is retired    *)
(* only when its command was handled, and that a bot polled for ends as    *)
(* its latest command says.                                                *)
(***************************************************************************)
EXTENDS CommandListener, FiniteSetTheorems, TLAPS

USE DEF Commands

-----------------------------------------------------------------------------
(* Type correctness *)

\* The part of the type invariant the task needs about itself: it never holds
\* "no command", and what it holds has a row.
HoldsCommand == Holding => cur \in 1..issued

TypeInv == TypeOK /\ HoldsCommand

LEMMA InitTypeInv == Init => TypeInv
<1> SUFFICES ASSUME Init PROVE TypeInv
  OBVIOUS
<1>1. (CHOOSE b \in Bots : TRUE) \in Bots
  BY BoundsAssumption
<1>2. bot \in [Commands -> Bots] /\ status \in [Bots -> {"up", "down"}]
  BY <1>1 DEF Init
<1>3. kind \in [Commands -> Kinds] /\ via \in [Commands -> {"none", "db", "pubsub"}]
  BY DEF Init, Kinds
<1>4. channel \in Seq((1..issued) \cup Junk)
  BY DEF Init
<1>5. issued \in 0..MaxCommands /\ cur \in 0..issued
  BY BoundsAssumption DEF Init
<1>6. /\ created \in [Commands -> Nat] /\ published \in [Commands -> Nat]
      /\ keys \in [Commands -> Nat] /\ dispatched \in [Commands -> Nat]
      /\ claims \in [Commands -> Nat]
  BY DEF Init
<1>7. /\ now \in Nat /\ pc \in Locations /\ src \in {"none", "db", "pubsub"}
      /\ stopping \in BOOLEAN /\ running \subseteq Bots
  BY DEF Init, Locations
<1>8. processed \subseteq 1..issued /\ batch \subseteq 1..issued /\ applied \subseteq 1..issued
  BY DEF Init
<1>9. HoldsCommand
  BY DEF Init, HoldsCommand, Holding
<1> QED
  BY <1>2, <1>3, <1>4, <1>5, <1>6, <1>7, <1>8, <1>9 DEF TypeInv, TypeOK

\* The columns and counters a step leaves alone keep their type.
FrameTypeOK ==
    /\ now \in Nat
    /\ issued \in 0..MaxCommands
    /\ kind \in [Commands -> Kinds]
    /\ bot \in [Commands -> Bots]
    /\ created \in [Commands -> Nat]
    /\ status \in [Bots -> {"up", "down"}]

LEMMA IssueTypeInv ==
  ASSUME TypeInv, NEW b \in Bots, NEW k \in UserKinds, Issue(b, k)
  PROVE  TypeInv'
<1>1. issued' = issued + 1 /\ issued' \in 0..MaxCommands /\ issued \in Nat
  BY BoundsAssumption DEF TypeInv, TypeOK, Issue
<1>2. (1..issued) \subseteq (1..issued') /\ (0..issued) \subseteq (0..issued')
  BY <1>1
<1>3. channel' \in Seq((1..issued') \cup Junk)
  <2>1. channel' = channel /\ channel \in Seq((1..issued) \cup Junk)
    BY DEF TypeInv, TypeOK, Issue
  <2> QED
    BY <2>1, <1>2
<1>4. kind' \in [Commands -> Kinds] /\ k \in Kinds
  BY BoundsAssumption DEF TypeInv, TypeOK, Issue, Kinds
<1>5. /\ bot' \in [Commands -> Bots] /\ created' \in [Commands -> Nat]
      /\ status' \in [Bots -> {"up", "down"}]
  BY DEF TypeInv, TypeOK, Issue
<1>6. UNCHANGED <<now, processed, published, keys, claims, pc, batch, cur, src, stopping,
                  running, dispatched, via, applied>>
  BY DEF Issue, keyVars, engineVars
<1>7. HoldsCommand'
  BY <1>1, <1>6 DEF TypeInv, TypeOK, HoldsCommand, Holding
<1> QED
  BY <1>1, <1>2, <1>3, <1>4, <1>5, <1>6, <1>7 DEF TypeInv, TypeOK

LEMMA PublishTypeInv ==
  ASSUME TypeInv, NEW c \in Commands, Publish(c)
  PROVE  TypeInv'
<1>1. c \in (1..issued) \cup Junk /\ channel \in Seq((1..issued) \cup Junk)
  BY BoundsAssumption DEF TypeInv, TypeOK, Publish
<1>2. channel' = channel \/ channel' = Append(channel, c)
  BY DEF Publish
<1>3. channel' \in Seq((1..issued) \cup Junk)
  BY <1>1, <1>2
<1>4. published' \in [Commands -> Nat]
  <2>1. published \in [Commands -> Nat]
    BY DEF TypeInv, TypeOK
  <2>2. published' = [published EXCEPT ![c] = @ + 1]
    BY DEF Publish
  <2> QED
    BY <2>1, <2>2
<1> QED
  BY <1>3, <1>4
  DEF Publish, TypeInv, TypeOK, HoldsCommand, Holding, backendVars, keyVars, engineVars

LEMMA PublishJunkTypeInv ==
  ASSUME TypeInv, NEW j \in Junk, PublishJunk(j)
  PROVE  TypeInv'
<1>1. channel' \in Seq((1..issued) \cup Junk)
  BY DEF TypeInv, TypeOK, PublishJunk
<1> QED
  BY <1>1
  DEF PublishJunk, TypeInv, TypeOK, HoldsCommand, Holding, backendVars, keyVars, engineVars

LEMMA ReceiveTypeInv ==
  ASSUME TypeInv, Receive
  PROVE  TypeInv'
<1>1. channel' \in Seq((1..issued) \cup Junk)
  BY DEF TypeInv, TypeOK, Receive
<1>2. \/ pc' = "loop" /\ cur' = cur /\ src' = src
      \/ pc' = "claim" /\ cur' \in 1..issued /\ src' = "pubsub"
  <2>1. CASE channel = <<>> \/ Head(channel) \in Junk
    BY <2>1 DEF Receive
  <2>2. CASE channel # <<>> /\ Head(channel) \notin Junk
    <3>1. Head(channel) \in (1..issued) \cup Junk
      BY <2>2 DEF TypeInv, TypeOK
    <3> QED
      BY <2>2, <3>1 DEF Receive
  <2> QED
    BY <2>1, <2>2
<1>3. cur' \in 0..issued /\ (pc' = "claim" => cur' \in 1..issued)
  BY <1>2 DEF TypeInv, TypeOK
<1>4. pc' \in {"loop", "claim"} /\ src' \in {"none", "db", "pubsub"}
  BY <1>2 DEF TypeInv, TypeOK
<1>5. UNCHANGED <<now, backendVars, processed, published, keys, claims, batch, stopping, engineVars>>
  BY DEF Receive, keyVars
<1> QED
  BY <1>1, <1>3, <1>4, <1>5
  DEF TypeInv, TypeOK, HoldsCommand, Holding, Locations, backendVars, keyVars, engineVars

LEMMA ClaimTypeInv ==
  ASSUME TypeInv, Claim \/ ClaimFails
  PROVE  TypeInv'
<1>1. keys' \in [Commands -> Nat] /\ claims' \in [Commands -> Nat]
  <2>1. now + DedupTtl \in Nat /\ keys \in [Commands -> Nat] /\ claims \in [Commands -> Nat]
    BY BoundsAssumption DEF TypeInv, TypeOK
  <2>2. \/ keys' = keys /\ claims' = claims
        \/ /\ keys' = [keys EXCEPT ![cur] = now + DedupTtl]
           /\ claims' = [claims EXCEPT ![cur] = @ + 1]
    BY DEF Claim, ClaimFails, SetKey, keyVars
  <2> QED
    BY <2>1, <2>2
<1>2. channel' \in Seq((1..issued) \cup Junk)
  <2>1. channel' = channel \/ channel' = <<>>
    BY DEF Claim, ClaimFails, Raise
  <2>2. channel \in Seq((1..issued) \cup Junk)
    BY DEF TypeInv, TypeOK
  <2>3. <<>> \in Seq((1..issued) \cup Junk)
    OBVIOUS
  <2> QED
    BY <2>1, <2>2, <2>3
<1>3. pc' \in {"mark", "claimed", "batch", "dead"} /\ cur \in 1..issued
  BY DEF Claim, ClaimFails, Raise, TypeInv, HoldsCommand, Holding
<1>4. UNCHANGED <<now, backendVars, processed, published, batch, cur, src, stopping, engineVars>>
  BY DEF Claim, ClaimFails
<1> QED
  BY <1>1, <1>2, <1>3, <1>4
  DEF TypeInv, TypeOK, HoldsCommand, Holding, Locations, backendVars, keyVars, engineVars

LEMMA DispatchTypeInv ==
  ASSUME TypeInv, Dispatch
  PROVE  TypeInv'
<1>1. dispatched' \in [Commands -> Nat]
  <2>1. dispatched \in [Commands -> Nat]
    BY DEF TypeInv, TypeOK
  <2>2. dispatched' = [dispatched EXCEPT ![cur] = @ + 1]
    BY DEF Dispatch
  <2>3. issued \in 0..MaxCommands /\ cur \in 1..issued
    BY DEF Dispatch, TypeInv, TypeOK, HoldsCommand, Holding
  <2>4. cur \in Commands
    BY <2>3, BoundsAssumption
  <2> QED
    BY <2>1, <2>2, <2>4
<1>2. via' \in [Commands -> {"none", "db", "pubsub"}]
  BY DEF Dispatch, TypeInv, TypeOK
<1>3. cur \in 1..issued
  BY DEF Dispatch, TypeInv, HoldsCommand, Holding
<1>4. UNCHANGED <<now, backendVars, processed, published, keys, claims, channel, batch, cur, src,
                  stopping, running, applied>> /\ pc' = "handling"
  BY DEF Dispatch, keyVars
<1> QED
  BY <1>1, <1>2, <1>3, <1>4
  DEF TypeInv, TypeOK, HoldsCommand, Holding, Locations, backendVars, keyVars

\* Whatever set of bots a handler leaves running, its return keeps the types.
LEMMA HandleTypeInv ==
  ASSUME TypeInv, Handle
  PROVE  TypeInv'
<1>1. pc = "handling" /\ cur \in 1..issued /\ cur \in Commands
  <2>1. pc = "handling"
    BY DEF Handle, HandleStart, HandleStop, HandleUpdate
  <2>2. cur \in 1..issued
    BY <2>1 DEF TypeInv, HoldsCommand, Holding
  <2>3. issued \in 0..MaxCommands
    BY DEF TypeInv, TypeOK
  <2> QED
    BY <2>1, <2>2, <2>3, BoundsAssumption
<1>2. bot[cur] \in Bots
  BY <1>1 DEF TypeInv, TypeOK
<1>3. ASSUME NEW bots \in SUBSET Bots, NEW ok \in BOOLEAN, Returned(bots, ok)
      PROVE  TypeInv'
  BY <1>1, <1>3
  DEF Returned, TypeInv, TypeOK, HoldsCommand, Holding, Locations, backendVars, keyVars
<1>4. running \subseteq Bots
  BY DEF TypeInv, TypeOK
<1>5. CASE HandleStart
  <2>1. \A left \in SUBSET {bot[cur]} : running \cup left \in SUBSET Bots
    BY <1>2, <1>4
  <2>2. running \cup {bot[cur]} \in SUBSET Bots
    BY <1>2, <1>4
  <2> QED
    BY <1>3, <1>5, <2>1, <2>2 DEF HandleStart
<1>6. CASE HandleStop
  <2>1. running \ {bot[cur]} \in SUBSET Bots
    BY <1>4
  <2> QED
    BY <1>3, <1>6, <2>1 DEF HandleStop
<1>7. CASE HandleUpdate
  <2>1. \A left \in SUBSET {bot[cur]} : (running \ {bot[cur]}) \cup left \in SUBSET Bots
    BY <1>2, <1>4
  <2>2. running \cup {bot[cur]} \in SUBSET Bots
    BY <1>2, <1>4
  <2> QED
    BY <1>3, <1>7, <2>1, <2>2 DEF HandleUpdate
<1> QED
  BY <1>5, <1>6, <1>7 DEF Handle

LEMMA ProcessEndsTypeInv ==
  ASSUME TypeInv, ProcessEnds
  PROVE  TypeInv'
<1>1. channel' \in Seq((1..issued) \cup Junk)
  BY DEF ProcessEnds
<1>2. 0 \in 0..issued
  BY DEF TypeInv, TypeOK
<1>3. /\ pc' = "off" /\ batch' = {} /\ cur' = 0 /\ src' = "none" /\ stopping' = FALSE
      /\ running' = {} /\ applied' = {}
      /\ UNCHANGED <<now, backendVars, processed, published, keys, claims, dispatched, via>>
  BY DEF ProcessEnds, keyVars
<1> QED
  BY <1>1, <1>2, <1>3
  DEF TypeInv, TypeOK, HoldsCommand, Holding, Locations, backendVars, keyVars

\* The steps that only move the task along, or the clock.
LEMMA QuietTypeInv ==
  ASSUME TypeInv,
         \/ Boot \/ BootFails \/ PollDue \/ PollNotDue \/ ListPendingFails \/ BatchDone
         \/ MarkProcessedFails \/ StopSignal
  PROVE  TypeInv'
BY DEF Boot, BootFails, PollDue, PollNotDue, ListPendingFails, BatchDone, MarkProcessedFails,
       StopSignal, TypeInv, TypeOK, HoldsCommand, Holding, Locations, backendVars, keyVars, engineVars

LEMMA TaskTypeInv ==
  ASSUME TypeInv, Task
  PROVE  TypeInv'
<1> USE DEF TypeInv, TypeOK, HoldsCommand, Holding, Locations, backendVars, keyVars, engineVars
<1>1. CASE ListPending
  <2>1. Listed \subseteq 1..issued
    BY DEF Listed, Eligible
  <2> QED
    BY <1>1, <2>1 DEF ListPending
<1>2. CASE TakeFromBatch
  BY <1>2 DEF TakeFromBatch
<1>3. CASE ReceiveRaises \/ ReceiveFails
  <2>1. <<>> \in Seq((1..issued) \cup Junk)
    OBVIOUS
  <2> QED
    BY <1>3, <2>1 DEF ReceiveRaises, ReceiveFails
<1>4. CASE MarkProcessed
  BY <1>4 DEF MarkProcessed
<1> QED
  BY QuietTypeInv, ReceiveTypeInv, ClaimTypeInv, DispatchTypeInv, HandleTypeInv,
     ProcessEndsTypeInv, <1>1, <1>2, <1>3, <1>4
  DEF Task, Exit

LEMMA NextTypeInv == TypeInv /\ [Next]_vars => TypeInv'
<1> SUFFICES ASSUME TypeInv, [Next]_vars PROVE TypeInv'
  OBVIOUS
<1>1. CASE Backend
  BY <1>1, IssueTypeInv, PublishTypeInv, PublishJunkTypeInv DEF Backend
<1>2. CASE Tick
  BY <1>2 DEF Tick, TypeInv, TypeOK, HoldsCommand, Holding, backendVars, keyVars, engineVars
<1>3. CASE Task
  BY <1>3, TaskTypeInv
<1>4. CASE StopSignal
  BY <1>4, QuietTypeInv
<1>5. CASE Crash
  BY <1>5, ProcessEndsTypeInv DEF Crash
<1>6. CASE UNCHANGED vars
  BY <1>6 DEF vars, TypeInv, TypeOK, HoldsCommand, Holding, backendVars, keyVars, engineVars
<1> QED
  BY <1>1, <1>2, <1>3, <1>4, <1>5, <1>6 DEF Next

\* Every variable keeps its type, and the task never works on "no command".
THEOREM TypeCorrect == Spec => []TypeOK
<1>1. Spec => []TypeInv
  BY InitTypeInv, NextTypeInv, PTL DEF Spec
<1> QED
  BY <1>1, PTL DEF TypeInv

\* What the types say, in the form most steps below need it.
LEMMA ListenerFacts ==
  ASSUME TypeInv
  PROVE  /\ issued \in Nat /\ issued <= MaxCommands /\ now \in Nat
         /\ MaxCommands \in Nat /\ MaxAge \in Nat /\ Linger \in Nat /\ DedupTtl \in Nat \ {0}
         /\ created \in [Commands -> Nat] /\ keys \in [Commands -> Nat]
         /\ claims \in [Commands -> Nat] /\ dispatched \in [Commands -> Nat]
         /\ bot \in [Commands -> Bots] /\ via \in [Commands -> {"none", "db", "pubsub"}]
         /\ 1..issued \subseteq Commands
         /\ batch \subseteq 1..issued /\ applied \subseteq 1..issued
         /\ processed \subseteq 1..issued
         /\ Holding => cur \in 1..issued /\ cur \in Commands
<1>1. /\ issued \in 0..MaxCommands /\ now \in Nat
      /\ created \in [Commands -> Nat] /\ keys \in [Commands -> Nat]
      /\ claims \in [Commands -> Nat] /\ dispatched \in [Commands -> Nat]
      /\ bot \in [Commands -> Bots] /\ via \in [Commands -> {"none", "db", "pubsub"}]
      /\ batch \subseteq 1..issued /\ applied \subseteq 1..issued
      /\ processed \subseteq 1..issued
  BY DEF TypeInv, TypeOK
<1>2. Holding => cur \in 1..issued
  BY DEF TypeInv, HoldsCommand
<1>3. /\ MaxCommands \in Nat /\ MaxAge \in Nat /\ Linger \in Nat /\ DedupTtl \in Nat \ {0}
  BY BoundsAssumption
<1>4. /\ issued \in Nat /\ issued <= MaxCommands /\ 1..issued \subseteq Commands
  BY <1>1, <1>3
<1> QED
  BY <1>1, <1>2, <1>3, <1>4

-----------------------------------------------------------------------------
(* Repeats are a key's life apart                                          *)
(*                                                                         *)
(* A claim finds no key only if there never was one, or if the last one    *)
(* has expired, DedupTtl after the claim that set it: so n claims reach    *)
(* n * DedupTtl beyond created (KeyInv).  A copy still in flight is at     *)
(* most MaxAge + Linger past created (FlightInv).                          *)

Fresh(c) == now <= created[c] + MaxAge + Linger

FlightInv ==
    /\ \A c \in 1..issued : created[c] <= now
    /\ \A c \in Commands : InFlight(c) => Fresh(c)

\* n lives of a dedup key, one after the other.
Lives(n) == n * DedupTtl

LEMMA LivesAddUp ==
  /\ Lives(0) = 0
  /\ \A n \in Nat : Lives(n) \in Nat /\ Lives(n + 1) = Lives(n) + DedupTtl
  /\ \A n \in Nat : \A m \in 0..n : Lives(m) <= Lives(n)
<1>1. DedupTtl \in Nat
  BY BoundsAssumption
<1>2. Lives(0) = 0
  BY <1>1 DEF Lives
<1>3. ASSUME NEW n \in Nat PROVE Lives(n) \in Nat /\ Lives(n + 1) = Lives(n) + DedupTtl
  BY <1>1 DEF Lives
<1>4. ASSUME NEW n \in Nat, NEW m \in 0..n PROVE Lives(m) <= Lives(n)
  <2>1. PICK k \in Nat : n = m + k
    OBVIOUS
  <2>2. Lives(n) = Lives(m) + k * DedupTtl
    BY <1>1, <2>1 DEF Lives
  <2>3. k * DedupTtl \in Nat /\ Lives(m) \in Nat
    BY <1>1, <1>3
  <2> QED
    BY <2>2, <2>3
<1> QED
  BY <1>2, <1>3, <1>4

\* Which commands were claimed, how long their keys last, and when the latest
\* claim on a command was made.
KeyInv ==
    /\ \A c \in Commands : c > issued => claims[c] = 0
    /\ \A c \in Commands : claims[c] = 0 <=> keys[c] = 0
    /\ \A c \in Commands : claims[c] > 0 => created[c] + Lives(claims[c]) <= keys[c]
    /\ \A c \in Commands : claims[c] > 0 =>
           /\ Lives(claims[c] - 1) <= now - created[c]
           /\ Lives(claims[c] - 1) <= MaxAge + Linger
    /\ \A c \in Commands : dispatched[c] <= claims[c]
    /\ pc = "claimed" => dispatched[cur] < claims[cur]
    /\ pc \in {"handling", "mark"} => claims[cur] > 0

DeliveryInv == TypeInv /\ FlightInv /\ KeyInv

LEMMA InitDeliveryInv == Init => DeliveryInv
<1> SUFFICES ASSUME Init PROVE FlightInv /\ KeyInv
  BY InitTypeInv DEF DeliveryInv
<1>1. FlightInv
  BY DEF Init, FlightInv, InFlight, InChannel
<1>2. KeyInv
  BY DEF Init, KeyInv
<1> QED
  BY <1>1, <1>2

\* What a channel operation can bring into the channel.
LEMMA ChannelFacts ==
  ASSUME NEW S, NEW ch \in Seq(S)
  PROVE  /\ \A e \in S : \A i \in DOMAIN Append(ch, e) :
                Append(ch, e)[i] = e \/ \E k \in DOMAIN ch : ch[k] = Append(ch, e)[i]
         /\ ch # <<>> => \E k \in DOMAIN ch : ch[k] = Head(ch)
         /\ ch # <<>> => \A i \in DOMAIN Tail(ch) : \E k \in DOMAIN ch : ch[k] = Tail(ch)[i]
<1>1. \A e \in S : \A i \in DOMAIN Append(ch, e) :
        Append(ch, e)[i] = e \/ \E k \in DOMAIN ch : ch[k] = Append(ch, e)[i]
  OBVIOUS
<1>2. ch # <<>> => \E k \in DOMAIN ch : ch[k] = Head(ch)
  <2> SUFFICES ASSUME ch # <<>> PROVE 1 \in DOMAIN ch /\ ch[1] = Head(ch)
    OBVIOUS
  <2> QED
    OBVIOUS
<1>3. ch # <<>> => \A i \in DOMAIN Tail(ch) : \E k \in DOMAIN ch : ch[k] = Tail(ch)[i]
  <2> SUFFICES ASSUME ch # <<>>, NEW i \in DOMAIN Tail(ch)
               PROVE  i + 1 \in DOMAIN ch /\ ch[i + 1] = Tail(ch)[i]
    OBVIOUS
  <2> QED
    OBVIOUS
<1> QED
  BY <1>1, <1>2, <1>3

\* A copy can only be in flight of a command that has a row.
LEMMA InFlightIssued ==
  ASSUME TypeInv, NEW c \in Commands, InFlight(c)
  PROVE  c <= issued
<1>1. issued \in Nat /\ channel \in Seq((1..issued) \cup Junk)
  BY BoundsAssumption DEF TypeInv, TypeOK
<1>2. CASE c \in batch
  BY <1>1, <1>2 DEF TypeInv, TypeOK
<1>3. CASE InChannel(c)
  <2>1. PICK i \in DOMAIN channel : channel[i] = c
    BY <1>3 DEF InChannel
  <2>2. c \in (1..issued) \cup Junk
    BY <1>1, <2>1
  <2>3. c \notin Junk
    BY BoundsAssumption
  <2> QED
    BY <1>1, <2>2, <2>3
<1>4. CASE pc = "claim" /\ cur = c
  BY <1>1, <1>4 DEF TypeInv, HoldsCommand, Holding
<1> QED
  BY <1>2, <1>3, <1>4 DEF InFlight

\* A step that brings no new copy into flight keeps every copy fresh.
LEMMA NoNewCopies ==
  ASSUME FlightInv, UNCHANGED <<now, issued, created>>,
         \A c \in Commands : InFlight(c)' => InFlight(c)
  PROVE  FlightInv'
BY DEF FlightInv, Fresh

LEMMA NextFlightInv ==
  ASSUME TypeInv, FlightInv, [Next]_vars
  PROVE  FlightInv'
<1>0. /\ now \in Nat /\ created \in [Commands -> Nat] /\ issued \in Nat
      /\ channel \in Seq((1..issued) \cup Junk)
      /\ MaxAge \in Nat /\ Linger \in Nat
  BY BoundsAssumption DEF TypeInv, TypeOK
<1>1. ASSUME NEW b \in Bots, NEW k \in UserKinds, Issue(b, k)
      PROVE  FlightInv'
  <2>1. /\ issued' = issued + 1 /\ created' = [created EXCEPT ![issued + 1] = now]
        /\ UNCHANGED <<now, channel, batch, pc, cur>> /\ issued + 1 \in Commands
    BY <1>1, <1>0, BoundsAssumption DEF Issue
  <2>2. \A c \in Commands : InFlight(c)' => InFlight(c)
    BY <2>1 DEF InFlight, InChannel
  <2>3. ASSUME NEW c \in Commands, InFlight(c)' PROVE Fresh(c)'
    <3>1. InFlight(c) /\ c <= issued
      BY <2>2, <2>3, InFlightIssued
    <3> QED
      BY <1>0, <2>1, <3>1 DEF FlightInv, Fresh
  <2>4. ASSUME NEW c \in 1..issued' PROVE created'[c] <= now'
    BY <1>0, <2>1, <2>4, BoundsAssumption DEF FlightInv
  <2> QED
    BY <2>3, <2>4 DEF FlightInv
<1>2. ASSUME NEW c \in Commands, Publish(c) PROVE FlightInv'
  <2>1. Fresh(c) /\ UNCHANGED <<now, issued, created, batch, pc, cur>>
    BY <1>2 DEF Publish, Fresh, backendVars, keyVars
  <2>2. c \in (1..issued) \cup Junk
    BY <1>2, <1>0 DEF Publish
  <2>3. channel' = channel \/ channel' = Append(channel, c)
    BY <1>2 DEF Publish
  <2>4. ASSUME NEW d \in Commands, InFlight(d)' PROVE d = c \/ InFlight(d)
    BY <1>0, <2>1, <2>2, <2>3, <2>4, ChannelFacts DEF InFlight, InChannel
  <2> QED
    BY <2>1, <2>4 DEF FlightInv, Fresh
<1>3. ASSUME NEW j \in Junk, PublishJunk(j) PROVE FlightInv'
  <2>1. channel' = Append(channel, j) /\ j \notin Commands
        /\ UNCHANGED <<now, issued, created, batch, pc, cur>>
    BY <1>3, BoundsAssumption DEF PublishJunk, backendVars, keyVars
  <2>2. ASSUME NEW d \in Commands, InFlight(d)' PROVE InFlight(d)
    BY <1>0, <2>1, <2>2, ChannelFacts DEF InFlight, InChannel
  <2> QED
    BY <2>1, <2>2, NoNewCopies
<1>4. CASE Tick
  <2>1. /\ now' = now + 1 /\ UNCHANGED <<issued, created, batch, channel, pc, cur>>
        /\ \A c \in Commands : InFlight(c) => now < created[c] + MaxAge + Linger
    BY <1>4 DEF Tick, backendVars, keyVars
  <2>2. \A c \in Commands : InFlight(c)' = InFlight(c)
    BY <2>1 DEF InFlight, InChannel
  <2>3. \A c \in Commands : created[c] \in Nat
    BY <1>0
  <2>4. (1..issued) \subseteq Commands
    BY BoundsAssumption DEF TypeInv, TypeOK
  <2> QED
    BY <1>0, <2>1, <2>2, <2>3, <2>4 DEF FlightInv, Fresh
<1>5. CASE ListPending
  <2>1. UNCHANGED <<now, issued, created, channel, cur>> /\ pc' = "batch" /\ batch' = Listed
    BY <1>5 DEF ListPending, backendVars, keyVars
  <2>2. \A c \in Listed : now <= created[c] + MaxAge
    BY DEF Listed, Eligible
  <2>3. \A c \in Listed : Fresh(c)
    <3>1. \A c \in Commands : created[c] \in Nat
      BY <1>0
    <3>2. Listed \subseteq Commands
      BY DEF Listed
    <3> QED
      BY <1>0, <2>2, <3>1, <3>2 DEF Fresh
  <2>4. \A c \in Commands : InFlight(c)' => c \in Listed \/ InFlight(c)
    BY <2>1 DEF InFlight, InChannel
  <2> QED
    BY <2>1, <2>3, <2>4 DEF FlightInv, Fresh
<1>6. CASE TakeFromBatch
  <2>1. UNCHANGED <<now, issued, created, channel>> /\ batch' \subseteq batch /\ cur' \in batch
    BY <1>6 DEF TakeFromBatch, backendVars, keyVars
  <2>2. \A c \in Commands : InFlight(c)' => InFlight(c)
    BY <2>1 DEF InFlight, InChannel
  <2> QED
    BY <2>1, <2>2, NoNewCopies
<1>7. CASE Receive
  <2>1. UNCHANGED <<now, issued, created, batch>>
    BY <1>7 DEF Receive, backendVars, keyVars
  <2>2. CASE channel = <<>>
    <3>1. pc' = "loop" /\ channel' = channel
      BY <1>7, <2>2 DEF Receive
    <3>2. \A c \in Commands : InFlight(c)' => InFlight(c)
      BY <2>1, <3>1 DEF InFlight, InChannel
    <3> QED
      BY <2>1, <3>2, NoNewCopies
  <2>3. CASE channel # <<>>
    <3>1. /\ channel' = Tail(channel)
          /\ pc' = "loop" \/ cur' = Head(channel)
      BY <1>7, <2>3 DEF Receive
    <3>2. \A c \in Commands : InChannel(c)' => InChannel(c)
      BY <1>0, <2>3, <3>1, ChannelFacts DEF InChannel
    <3>3. \A c \in Commands : Head(channel) = c => InChannel(c)
      BY <1>0, <2>3, ChannelFacts DEF InChannel
    <3>4. \A c \in Commands : InFlight(c)' => InFlight(c)
      BY <2>1, <3>1, <3>2, <3>3 DEF InFlight
    <3> QED
      BY <2>1, <3>4, NoNewCopies
  <2> QED
    BY <2>2, <2>3
<1>8. CASE ReceiveRaises \/ ReceiveFails \/ Claim \/ ClaimFails \/ Exit \/ Crash
  <2>1. /\ UNCHANGED <<now, issued, created>> /\ batch' \subseteq batch
        /\ channel' = channel \/ channel' = <<>>
        /\ pc' # "claim"
    BY <1>8 DEF ReceiveRaises, ReceiveFails, Claim, ClaimFails, Raise, Exit, Crash, ProcessEnds, backendVars, keyVars
  <2>2. \A c \in Commands : InFlight(c)' => InFlight(c)
    BY <2>1 DEF InFlight, InChannel
  <2> QED
    BY <2>1, <2>2, NoNewCopies
<1>9. CASE \/ Boot \/ BootFails \/ PollDue \/ PollNotDue \/ ListPendingFails \/ BatchDone
           \/ Dispatch \/ Handle \/ MarkProcessed \/ MarkProcessedFails
  <2>1. UNCHANGED <<now, issued, created, batch, channel, cur>> /\ pc' # "claim"
    BY <1>9 DEF Boot, BootFails, PollDue, PollNotDue, ListPendingFails, BatchDone, Dispatch, Handle,
       HandleStart, HandleStop, HandleUpdate, Returned, MarkProcessed, MarkProcessedFails,
       backendVars
  <2>2. \A c \in Commands : InFlight(c)' => InFlight(c)
    BY <2>1 DEF InFlight, InChannel
  <2> QED
    BY <2>1, <2>2, NoNewCopies
<1>10. CASE StopSignal \/ UNCHANGED vars
  <2>1. UNCHANGED <<now, issued, created, batch, channel, cur, pc>>
    BY <1>10 DEF StopSignal, vars, backendVars, keyVars
  <2>2. \A c \in Commands : InFlight(c)' => InFlight(c)
    BY <2>1 DEF InFlight, InChannel
  <2> QED
    BY <2>1, <2>2, NoNewCopies
<1> QED
  BY <1>1, <1>2, <1>3, <1>4, <1>5, <1>6, <1>7, <1>8, <1>9, <1>10 DEF Next, Backend, Task

\* Who finds no key on the command it is about to claim comes when all the keys
\* set for it before have expired, one after the other.
LEMMA ClaimFindsNoKey ==
  ASSUME DeliveryInv, pc = "claim", ~HasKey(cur)
  PROVE  /\ cur \in 1..issued /\ cur \in Commands /\ claims[cur] \in Nat
         /\ created[cur] + Lives(claims[cur]) <= now
         /\ Lives(claims[cur]) <= MaxAge + Linger
<1>1. /\ cur \in 1..issued /\ cur \in Commands /\ now \in Nat
      /\ created[cur] \in Nat /\ keys[cur] \in Nat /\ claims[cur] \in Nat
      /\ MaxAge \in Nat /\ Linger \in Nat
  BY ListenerFacts DEF DeliveryInv, Holding
<1>2. Fresh(cur) /\ created[cur] <= now
  BY <1>1 DEF DeliveryInv, FlightInv, InFlight
<1>3. Lives(claims[cur]) \in Nat /\ Lives(0) = 0
  BY <1>1, LivesAddUp
<1>4. created[cur] + Lives(claims[cur]) <= now
  <2>1. CASE claims[cur] = 0
    BY <1>1, <1>2, <1>3, <2>1
  <2>2. CASE claims[cur] > 0
    <3>1. created[cur] + Lives(claims[cur]) <= keys[cur] /\ keys[cur] <= now
      BY <1>1, <2>2 DEF DeliveryInv, KeyInv, HasKey
    <3> QED
      BY <1>1, <1>3, <3>1
  <2> QED
    BY <1>1, <2>1, <2>2
<1>5. Lives(claims[cur]) <= MaxAge + Linger
  BY <1>1, <1>2, <1>3, <1>4 DEF Fresh
<1> QED
  BY <1>1, <1>4, <1>5

LEMMA NextKeyInv ==
  ASSUME DeliveryInv, [Next]_vars
  PROVE  KeyInv'
<1>0. /\ now \in Nat /\ issued \in Nat /\ issued <= MaxCommands
      /\ created \in [Commands -> Nat] /\ claims \in [Commands -> Nat]
      /\ keys \in [Commands -> Nat] /\ dispatched \in [Commands -> Nat]
      /\ MaxAge \in Nat /\ Linger \in Nat /\ DedupTtl \in Nat \ {0} /\ MaxCommands \in Nat
      /\ Holding => cur \in 1..issued /\ cur \in Commands
  BY ListenerFacts DEF DeliveryInv
<1>k. KeyInv
  BY DEF DeliveryInv
<1>1. ASSUME NEW b \in Bots, NEW k \in UserKinds, Issue(b, k) PROVE KeyInv'
  <2>1. /\ issued' = issued + 1 /\ created' = [created EXCEPT ![issued + 1] = now]
        /\ UNCHANGED <<now, keys, claims, dispatched, pc, cur>>
    BY <1>1 DEF Issue, keyVars, engineVars
  <2>2. issued + 1 \in Commands
    BY <1>0, <1>1 DEF Issue
  <2>3. \A c \in Commands : claims[c] > 0 => created'[c] = created[c]
    BY <1>0, <1>k, <2>1 DEF KeyInv
  <2>4. \A c \in Commands : c > issued' => claims[c] = 0
    BY <1>0, <1>k, <2>1 DEF KeyInv
  <2> QED
    BY <1>k, <2>1, <2>3, <2>4 DEF KeyInv
<1>2. CASE Claim \/ ClaimFails
  <2>1. /\ UNCHANGED <<now, issued, created, dispatched, cur>> /\ pc = "claim"
        /\ \/ UNCHANGED <<keys, claims>>
           \/ ~HasKey(cur) /\ SetKey(cur)
        /\ pc' = "claimed" => ~HasKey(cur) /\ SetKey(cur)
        /\ pc' = "mark" => HasKey(cur)
        /\ pc' # "handling"
    BY <1>2 DEF Claim, ClaimFails, Raise, backendVars, keyVars, engineVars
  <2>2. cur \in 1..issued /\ cur \in Commands /\ created[cur] \in Nat /\ claims[cur] \in Nat
    BY <1>0, <2>1 DEF Holding
  <2>3. HasKey(cur) => claims[cur] > 0
    BY <1>0, <1>k, <2>2 DEF HasKey, KeyInv
  <2>4. CASE UNCHANGED <<keys, claims>>
    <3>1. pc' # "claimed"
      BY <1>0, <2>1, <2>2, <2>4 DEF SetKey
    <3>2. pc' = "mark" => claims[cur] > 0
      BY <2>1, <2>3
    <3> QED
      BY <1>0, <1>k, <2>1, <2>4, <3>1, <3>2 DEF KeyInv
  <2>5. CASE ~HasKey(cur) /\ SetKey(cur)
    <3>1. /\ created[cur] + Lives(claims[cur]) <= now
          /\ Lives(claims[cur]) <= MaxAge + Linger
      BY <2>1, <2>5, ClaimFindsNoKey
    <3>2. /\ keys'[cur] = now + DedupTtl /\ claims'[cur] = claims[cur] + 1
          /\ \A c \in Commands \ {cur} : keys'[c] = keys[c] /\ claims'[c] = claims[c]
      BY <1>0, <2>2, <2>5 DEF SetKey
    <3>3. /\ Lives(claims[cur] + 1) = Lives(claims[cur]) + DedupTtl
          /\ Lives(claims[cur]) \in Nat /\ claims[cur] + 1 - 1 = claims[cur]
      BY SMTT(30), <2>2, LivesAddUp
    <3>4. /\ created[cur] + Lives(claims'[cur]) <= keys'[cur]
          /\ Lives(claims'[cur] - 1) <= now - created[cur]
          /\ Lives(claims'[cur] - 1) <= MaxAge + Linger
          /\ claims'[cur] > 0 /\ keys'[cur] # 0
      <4>1. claims'[cur] - 1 = claims[cur] /\ claims'[cur] > 0
        BY <2>2, <3>2
      <4>2. Lives(claims[cur]) <= now - created[cur]
        BY <1>0, <2>2, <3>1, <3>3
      <4>4. keys'[cur] # 0
        BY <1>0, <3>2
      <4>3. created[cur] + (Lives(claims[cur]) + DedupTtl) <= now + DedupTtl
        BY <1>0, <2>2, <3>1, <3>3
      <4> QED
        BY <3>1, <3>2, <3>3, <4>1, <4>2, <4>3, <4>4
    <3>5. dispatched[cur] < claims'[cur]
      BY <1>0, <1>k, <2>2, <3>2 DEF KeyInv
    <3>6. dispatched[cur] <= claims'[cur]
      BY <1>0, <2>2, <3>2, <3>5
    <3>7. /\ \A c \in Commands : c > issued' => claims'[c] = 0
          /\ \A c \in Commands : claims'[c] = 0 <=> keys'[c] = 0
      <4>1. cur <= issued /\ claims'[cur] # 0 /\ keys'[cur] # 0 /\ issued' = issued
        BY <1>0, <2>1, <2>2, <3>2, <3>4
      <4>2. ASSUME NEW c \in Commands
            PROVE  (c > issued' => claims'[c] = 0) /\ (claims'[c] = 0 <=> keys'[c] = 0)
        <5>1. CASE c = cur
          BY <1>0, <2>2, <4>1, <5>1
        <5>2. CASE c # cur
          BY <1>k, <3>2, <4>1, <5>2 DEF KeyInv
        <5> QED
          BY <5>1, <5>2
      <4> QED
        BY <4>2
    <3>8. /\ \A c \in Commands : claims'[c] > 0 => created'[c] + Lives(claims'[c]) <= keys'[c]
          /\ \A c \in Commands : claims'[c] > 0 =>
                 /\ Lives(claims'[c] - 1) <= now' - created'[c]
                 /\ Lives(claims'[c] - 1) <= MaxAge + Linger
      BY <1>k, <2>1, <3>2, <3>4 DEF KeyInv
    <3>9. /\ \A c \in Commands : dispatched'[c] <= claims'[c]
          /\ pc' = "claimed" => dispatched'[cur'] < claims'[cur']
          /\ pc' \in {"handling", "mark"} => claims'[cur'] > 0
      BY <1>k, <2>1, <3>2, <3>4, <3>5, <3>6 DEF KeyInv
    <3> QED
      BY <3>7, <3>8, <3>9 DEF KeyInv
  <2> QED
    BY <2>1, <2>4, <2>5
<1>3. CASE Dispatch
  <2>1. /\ UNCHANGED <<now, issued, created, keys, claims, cur>> /\ pc = "claimed" /\ pc' = "handling"
        /\ dispatched' = [dispatched EXCEPT ![cur] = @ + 1]
    BY <1>3 DEF Dispatch, backendVars, keyVars
  <2>2. cur \in 1..issued /\ cur \in Commands
    BY <1>0, <2>1 DEF Holding
  <2>3. dispatched[cur] + 1 <= claims[cur] /\ claims[cur] > 0
    BY SMTT(30), <1>0, <1>k, <2>1, <2>2 DEF KeyInv
  <2>4. /\ dispatched'[cur] = dispatched[cur] + 1
        /\ \A c \in Commands \ {cur} : dispatched'[c] = dispatched[c]
    BY <1>0, <2>1, <2>2
  <2>5. \A c \in Commands : dispatched'[c] <= claims[c]
    BY <1>k, <2>3, <2>4 DEF KeyInv
  <2> QED
    BY <1>k, <2>1, <2>3, <2>5 DEF KeyInv
<1>4. CASE Handle
  <2>1. /\ UNCHANGED <<now, issued, created, keys, claims, dispatched, cur>>
        /\ pc = "handling" /\ pc' = "mark"
    BY <1>4 DEF Handle, HandleStart, HandleStop, HandleUpdate, Returned, backendVars, keyVars
  <2> QED
    BY <1>0, <1>k, <2>1 DEF KeyInv
<1>5. CASE MarkProcessed \/ MarkProcessedFails
  <2>1. UNCHANGED <<now, issued, created, keys, claims, dispatched, cur>> /\ pc' \in {"batch", "loop"}
    BY <1>5 DEF MarkProcessed, MarkProcessedFails, backendVars, keyVars, engineVars
  <2> QED
    BY <1>0, <1>k, <2>1 DEF KeyInv
<1>6. CASE \/ Boot \/ BootFails \/ PollDue \/ PollNotDue \/ ListPending \/ ListPendingFails
           \/ TakeFromBatch \/ BatchDone \/ Receive \/ ReceiveRaises \/ ReceiveFails \/ Exit \/ Crash
  <2>1. /\ UNCHANGED <<now, issued, created, keys, claims, dispatched>>
        /\ pc' \notin {"claimed", "handling", "mark"}
    BY <1>6 DEF Boot, BootFails, PollDue, PollNotDue, ListPending, ListPendingFails, TakeFromBatch,
       BatchDone, Receive, ReceiveRaises, ReceiveFails, Exit, Crash, ProcessEnds, backendVars, keyVars, engineVars
  <2> QED
    BY <1>0, <1>k, <2>1 DEF KeyInv
<1>t. CASE Tick
  <2>1. /\ now' = now + 1
        /\ UNCHANGED <<issued, created, keys, claims, dispatched, cur, pc>>
    BY <1>t DEF Tick, backendVars, keyVars, engineVars
  <2>2. ASSUME NEW c \in Commands, claims[c] > 0
        PROVE  Lives(claims[c] - 1) <= now' - created[c]
    <3>1. claims[c] - 1 \in Nat /\ created[c] \in Nat
      BY SMTT(30), <1>0, <2>2
    <3>2. Lives(claims[c] - 1) \in Nat /\ Lives(claims[c] - 1) <= now - created[c]
      BY <1>k, <2>2, <3>1, LivesAddUp DEF KeyInv
    <3> QED
      BY <1>0, <2>1, <3>1, <3>2
  <2> QED
    BY <1>k, <2>1, <2>2 DEF KeyInv
<1>7. CASE \/ StopSignal \/ UNCHANGED vars
           \/ \E c \in Commands : Publish(c)
           \/ \E j \in Junk : PublishJunk(j)
  <2>1. UNCHANGED <<now, issued, created, keys, claims, dispatched, cur, pc>>
    BY <1>7 DEF StopSignal, vars, Publish, PublishJunk, backendVars, keyVars, engineVars
  <2> QED
    BY <1>0, <1>k, <2>1 DEF KeyInv
<1> QED
  BY <1>1, <1>2, <1>3, <1>4, <1>5, <1>6, <1>t, <1>7 DEF Next, Backend, Task

LEMMA DeliveryInvInvariant == Spec => []DeliveryInv
<1>1. DeliveryInv /\ [Next]_vars => DeliveryInv'
  BY NextTypeInv, NextFlightInv, NextKeyInv DEF DeliveryInv
<1> QED
  BY InitDeliveryInv, <1>1, PTL DEF Spec

\* The orchestrator is called with a command again only after its dedup key has
\* expired, each time a whole DedupTtl later, while a copy of it still travels:
\* for all settings, and so at most once if the key outlives the copies, and at
\* most twice with the defaults.
THEOREM RepeatsAreKeyLivesApart == Spec => []OncePerKeyLife
<1>1. DeliveryInv => OncePerKeyLife
  <2> SUFFICES ASSUME DeliveryInv, NEW c \in Commands, dispatched[c] > 0
               PROVE  /\ (dispatched[c] - 1) * DedupTtl <= now - created[c]
                      /\ (dispatched[c] - 1) * DedupTtl <= MaxAge + Linger
    BY DEF OncePerKeyLife
  <2>1. /\ dispatched[c] \in Nat /\ claims[c] \in Nat /\ created[c] \in Nat /\ now \in Nat
        /\ MaxAge \in Nat /\ Linger \in Nat
    BY ListenerFacts DEF DeliveryInv
  <2>2. /\ dispatched[c] <= claims[c]
        /\ Lives(claims[c] - 1) <= now - created[c]
        /\ Lives(claims[c] - 1) <= MaxAge + Linger
    BY <2>1 DEF DeliveryInv, KeyInv
  <2>3. claims[c] - 1 \in Nat /\ dispatched[c] - 1 \in 0..(claims[c] - 1)
    BY <2>1, <2>2
  <2>4. /\ Lives(dispatched[c] - 1) <= Lives(claims[c] - 1)
        /\ Lives(dispatched[c] - 1) \in Nat /\ Lives(claims[c] - 1) \in Nat
    BY SMTT(30), <2>3, LivesAddUp
  <2>5. /\ Lives(dispatched[c] - 1) <= now - created[c]
        /\ Lives(dispatched[c] - 1) <= MaxAge + Linger
    BY <2>1, <2>2, <2>4
  <2> QED
    BY <2>5 DEF Lives
<1> QED
  BY <1>1, DeliveryInvInvariant, PTL

-----------------------------------------------------------------------------
(* CommandListener implements CommandDelivery *)

\* A step that touches no row, claim or count, and neither takes nor gives up
\* a claim, is a stutter of the abstract delivery.
LEMMA DeliveryUntouched ==
  ASSUME UNCHANGED <<issued, claims, dispatched, processed>>,
         \A c \in Commands : (pc = "claimed" /\ cur = c)' <=> (pc = "claimed" /\ cur = c)
  PROVE  UNCHANGED Delivery!vars
<1>1. Spent' = Spent
  BY DEF Spent
<1> QED
  BY <1>1 DEF Delivery!vars

\* A claim that is used up is an abstract attempt.
LEMMA ClaimSpent ==
  ASSUME NEW c \in 1..issued, NEW n \in Nat, Lives(n) <= MaxAge + Linger,
         Spent[c] = n, Spent' = [Spent EXCEPT ![c] = n + 1],
         UNCHANGED <<issued, processed>>
  PROVE  Delivery!Attempt(c)
<1>1. Spent[c] * DedupTtl <= MaxAge + Linger
  BY DEF Lives
<1>2. Spent' = [Spent EXCEPT ![c] = @ + 1]
  OBVIOUS
<1> QED
  BY <1>1, <1>2 DEF Delivery!Attempt

LEMMA NextDelivery ==
  ASSUME DeliveryInv, DeliveryInv', [Next]_vars
  PROVE  [Delivery!Next]_(Delivery!vars)
<1>0. /\ issued \in Nat /\ issued <= MaxCommands /\ MaxCommands \in Nat
      /\ claims \in [Commands -> Nat] /\ dispatched \in [Commands -> Nat]
      /\ Holding => cur \in 1..issued /\ cur \in Commands
  BY ListenerFacts DEF DeliveryInv
<1>t. TypeInv /\ TypeInv'
  BY DEF DeliveryInv
<1>k. KeyInv /\ KeyInv'
  BY DEF DeliveryInv
<1>s. /\ pc # "claimed" => Spent = claims
      /\ pc = "claimed" => Spent = [claims EXCEPT ![cur] = @ - 1]
      /\ pc' # "claimed" => Spent' = claims'
      /\ pc' = "claimed" => Spent' = [claims' EXCEPT ![cur'] = @ - 1]
  <2>1. claims \in [Commands -> Nat] /\ claims' \in [Commands -> Nat]
    BY <1>t DEF TypeInv, TypeOK
  <2>2. /\ pc # "claimed" => Spent = claims
        /\ pc = "claimed" => Spent = [claims EXCEPT ![cur] = @ - 1]
    BY <2>1 DEF Spent
  <2>3. /\ pc' # "claimed" => Spent' = claims'
        /\ pc' = "claimed" => Spent' = [claims' EXCEPT ![cur'] = @ - 1]
    BY <2>1 DEF Spent
  <2> QED
    BY <2>2, <2>3
<1>1. ASSUME NEW b \in Bots, NEW k \in UserKinds, Issue(b, k)
      PROVE  Delivery!Next
  <2>1. PICK c \in Commands : c = issued + 1
    BY <1>0, <1>1 DEF Issue
  <2>2. issued' = c /\ UNCHANGED <<claims, dispatched, processed, pc, cur>>
    BY <1>1, <2>1 DEF Issue, keyVars, engineVars
  <2>3. c \notin 1..issued /\ 1..issued' = 1..issued \cup {c}
    BY <1>0, <2>1, <2>2
  <2>4. Spent' = Spent
    BY <1>s, <2>2
  <2>5. Delivery!Issue(c)
    BY <2>2, <2>3, <2>4 DEF Delivery!Issue
  <2> QED
    BY <2>5 DEF Delivery!Next
<1>2. CASE Claim
  <2>1. /\ UNCHANGED <<issued, dispatched, processed, cur>> /\ pc = "claim"
        /\ cur \in 1..issued /\ cur \in Commands
    BY <1>0, <1>2 DEF Claim, Holding, backendVars, engineVars
  <2>2. CASE HasKey(cur)
    <3>1. claims' = claims /\ pc' = "mark"
      BY <1>2, <2>2 DEF Claim, keyVars
    <3> QED
      BY <2>1, <3>1, DeliveryUntouched
  <2>3. CASE ~HasKey(cur)
    <3>1. pc' = "claimed" /\ claims' = [claims EXCEPT ![cur] = @ + 1]
      BY <1>2, <2>3 DEF Claim, SetKey
    <3>2. Spent' = claims
      BY <1>0, <1>s, <2>1, <3>1
    <3>3. Spent' = Spent
      BY <1>s, <2>1, <3>2
    <3> QED
      BY <2>1, <3>3 DEF Delivery!vars
  <2> QED
    BY <2>2, <2>3
<1>3. CASE ClaimFails
  <2>1. /\ UNCHANGED <<issued, dispatched, processed, cur>> /\ pc = "claim"
        /\ cur \in 1..issued /\ cur \in Commands /\ pc' \in {"batch", "dead"}
    BY <1>0, <1>3 DEF ClaimFails, Raise, Holding, backendVars, engineVars
  <2>2. CASE UNCHANGED keyVars
    BY <2>1, <2>2, DeliveryUntouched DEF keyVars
  <2>3. CASE ~HasKey(cur) /\ SetKey(cur)
    <3>1. claims' = [claims EXCEPT ![cur] = @ + 1]
      BY <2>3 DEF SetKey
    <3>2. claims[cur] \in Nat /\ Lives(claims[cur]) <= MaxAge + Linger
      BY <2>1, <2>3, ClaimFindsNoKey
    <3>3. Spent = claims /\ Spent' = [claims EXCEPT ![cur] = claims[cur] + 1]
      BY <1>s, <2>1, <3>1
    <3>4. Delivery!Attempt(cur)
      BY <2>1, <3>2, <3>3, ClaimSpent
    <3> QED
      BY <2>1, <3>4 DEF Delivery!Next, Delivery!Lose
  <2> QED
    BY <1>3, <2>2, <2>3 DEF ClaimFails
<1>4. CASE Dispatch
  <2>1. /\ UNCHANGED <<issued, claims, processed, cur>> /\ pc = "claimed" /\ pc' = "handling"
        /\ cur \in 1..issued /\ cur \in Commands
        /\ dispatched' = [dispatched EXCEPT ![cur] = @ + 1]
    BY <1>0, <1>4 DEF Dispatch, Holding, backendVars, keyVars
  <2>2. claims[cur] - 1 \in Nat /\ Lives(claims[cur] - 1) <= MaxAge + Linger
    BY <1>0, <1>k, <2>1 DEF KeyInv
  <2>3. Spent = [claims EXCEPT ![cur] = @ - 1] /\ Spent' = claims
    BY <1>s, <2>1
  <2>4. Spent[cur] = claims[cur] - 1 /\ Spent' = [Spent EXCEPT ![cur] = claims[cur] - 1 + 1]
    <3>1. claims[cur] - 1 + 1 = claims[cur]
      BY <1>0, <2>1
    <3> QED
      BY <1>0, <2>1, <2>3, <3>1
  <2>5. Delivery!Attempt(cur)
    BY <2>1, <2>2, <2>4, ClaimSpent
  <2> QED
    BY <2>1, <2>5 DEF Delivery!Next, Delivery!Deliver
<1>5. CASE MarkProcessed
  <2>1. /\ UNCHANGED <<issued, claims, dispatched, cur>> /\ pc = "mark" /\ pc' \in {"batch", "loop"}
        /\ cur \in 1..issued /\ cur \in Commands /\ processed' = processed \cup {cur}
    BY <1>0, <1>5 DEF MarkProcessed, Holding, backendVars, keyVars, engineVars
  <2>2. Spent' = Spent /\ Spent[cur] > 0
    BY <1>k, <1>s, <2>1 DEF KeyInv
  <2>3. Delivery!Retire(cur)
    BY <2>1, <2>2 DEF Delivery!Retire
  <2> QED
    BY <2>1, <2>3 DEF Delivery!Next
<1>6. CASE Crash \/ Exit
  <2>1. UNCHANGED <<issued, claims, dispatched, processed>> /\ pc' = "off"
    BY <1>6 DEF Crash, Exit, ProcessEnds, backendVars, keyVars
  <2>2. CASE pc # "claimed"
    BY <2>1, <2>2, DeliveryUntouched
  <2>3. CASE pc = "claimed"
    <3>1. PICK c \in Commands : c = cur
      BY <1>0, <2>3 DEF Holding
    <3>2. /\ c \in 1..issued /\ claims[c] - 1 \in Nat
          /\ Lives(claims[c] - 1) <= MaxAge + Linger
      BY <1>0, <1>k, <2>3, <3>1 DEF Holding, KeyInv
    <3>3. Spent = [claims EXCEPT ![c] = @ - 1] /\ Spent' = claims
      BY <1>s, <2>1, <2>3, <3>1
    <3>4. Spent[c] = claims[c] - 1 /\ Spent' = [Spent EXCEPT ![c] = claims[c] - 1 + 1]
      <4>1. claims[c] - 1 + 1 = claims[c]
        BY <1>0
      <4> QED
        BY <1>0, <3>3, <4>1
    <3>5. Delivery!Attempt(c)
      BY <2>1, <3>2, <3>4, ClaimSpent
    <3> QED
      BY <2>1, <3>5 DEF Delivery!Next, Delivery!Lose
  <2> QED
    BY <2>2, <2>3
<1>7. CASE Handle \/ MarkProcessedFails
  <2>1. /\ UNCHANGED <<issued, claims, dispatched, processed>>
        /\ pc # "claimed" /\ pc' # "claimed"
    BY <1>7 DEF Handle, HandleStart, HandleStop, HandleUpdate, Returned, MarkProcessedFails,
       backendVars, keyVars, engineVars
  <2> QED
    BY <2>1, DeliveryUntouched
<1>8. CASE \/ Boot \/ BootFails \/ PollDue \/ PollNotDue \/ ListPending \/ ListPendingFails
           \/ TakeFromBatch \/ BatchDone \/ Receive \/ ReceiveRaises \/ ReceiveFails
  <2>1. /\ UNCHANGED <<issued, claims, dispatched, processed>>
        /\ pc # "claimed" /\ pc' # "claimed"
    BY <1>8 DEF Boot, BootFails, PollDue, PollNotDue, ListPending, ListPendingFails, TakeFromBatch,
       BatchDone, Receive, ReceiveRaises, ReceiveFails, backendVars, keyVars, engineVars
  <2> QED
    BY <2>1, DeliveryUntouched
<1>9. CASE \/ Tick \/ StopSignal \/ UNCHANGED vars
           \/ \E c \in Commands : Publish(c)
           \/ \E j \in Junk : PublishJunk(j)
  <2>1. UNCHANGED <<issued, claims, dispatched, processed, cur, pc>>
    BY <1>9 DEF Tick, StopSignal, vars, Publish, PublishJunk, backendVars, keyVars, engineVars
  <2> QED
    BY <2>1, DeliveryUntouched
<1> QED
  BY <1>1, <1>2, <1>3, <1>4, <1>5, <1>6, <1>7, <1>8, <1>9 DEF Next, Backend, Task

\* Each step of the listener and of what surrounds it is a step of the
\* abstract delivery or invisible to it: attempts a key's life apart, each of
\* which delivers the command or is lost, and a row retired only after one.
THEOREM ImplementsDelivery == Spec => DeliveryRefined
<1>1. Init => Delivery!Init
  <2> SUFFICES ASSUME Init PROVE Delivery!Init
    OBVIOUS
  <2>1. 1..issued = {}
    BY DEF Init
  <2>2. Spent = [c \in Commands |-> 0]
    BY DEF Init, Spent
  <2> QED
    BY <2>1, <2>2 DEF Init, Delivery!Init
<1>2. DeliveryInv /\ DeliveryInv' /\ [Next]_vars => [Delivery!Next]_(Delivery!vars)
  BY NextDelivery
<1> QED
  BY <1>1, <1>2, DeliveryInvInvariant, PTL DEF Spec, Delivery!Spec, DeliveryRefined

-----------------------------------------------------------------------------
(* Retired means handled, without crashes and lost replies *)

\* A dedup key says its command was dispatched, or is about to be; and from the
\* dispatch to the marking the command in hand is a dispatched one.
HandledInv ==
    /\ \A c \in Commands : keys[c] # 0 =>
          dispatched[c] > 0 \/ (pc = "claimed" /\ cur = c)
    /\ pc \in {"handling", "mark"} => dispatched[cur] > 0
    /\ ProcessedWasHandled

LEMMA HandledStep ==
  ASSUME ~MayCrash, ~RedisMayFail, TypeInv, HandledInv, [Next]_vars
  PROVE  HandledInv'
<1> USE DEF HandledInv, ProcessedWasHandled
<1>1. /\ dispatched \in [Commands -> Nat] /\ keys \in [Commands -> Nat] /\ now \in Nat
      /\ \A c \in 1..issued : c \in Commands
      /\ Holding => cur \in Commands
  BY ListenerFacts
<1>2. ASSUME Claim PROVE HandledInv'
  <2>1. cur \in Commands /\ UNCHANGED <<dispatched, processed, cur>>
    BY <1>1, <1>2 DEF Claim, Holding, keyVars, engineVars
  <2>2. CASE HasKey(cur)
    <3>1. keys[cur] # 0
      BY <1>1, <2>1, <2>2 DEF HasKey
    <3> QED
      BY <1>2, <2>1, <2>2, <3>1 DEF Claim, keyVars
  <2>3. CASE ~HasKey(cur)
    BY <1>1, <1>2, <2>1, <2>3 DEF Claim, SetKey
  <2> QED
    BY <2>2, <2>3
<1>3. ASSUME Dispatch PROVE HandledInv'
  <2>1. cur \in Commands
    BY <1>1, <1>3 DEF Dispatch, Holding
  <2>2. /\ dispatched'[cur] > 0
        /\ \A c \in Commands : dispatched[c] > 0 => dispatched'[c] > 0
    BY <1>1, <1>3, <2>1 DEF Dispatch
  <2>3. processed \subseteq Commands
    BY <1>1 DEF TypeInv, TypeOK
  <2> QED
    BY <1>3, <2>1, <2>2, <2>3 DEF Dispatch, keyVars
<1>4. ASSUME Handle PROVE HandledInv'
  BY <1>4 DEF Handle, HandleStart, HandleStop, HandleUpdate, Returned, keyVars
<1>5. ASSUME MarkProcessed \/ MarkProcessedFails PROVE HandledInv'
  BY <1>5 DEF MarkProcessed, MarkProcessedFails, keyVars, engineVars
<1>6. ASSUME \/ Boot \/ BootFails \/ PollDue \/ PollNotDue \/ ListPending
             \/ ListPendingFails \/ TakeFromBatch \/ BatchDone \/ Receive \/ ReceiveRaises \/ ReceiveFails
             \/ ClaimFails \/ Exit \/ Crash
      PROVE  HandledInv'
  <2>1. UNCHANGED <<keys, claims, dispatched, processed>>
    BY <1>6 DEF Boot, BootFails, PollDue, PollNotDue, ListPending, ListPendingFails,
       TakeFromBatch, BatchDone, Receive, ReceiveRaises, ReceiveFails, ClaimFails, Exit, Crash,
       ProcessEnds, keyVars, engineVars
  <2>2. pc # "claimed" /\ pc' \notin {"claimed", "handling", "mark"}
    BY <1>6 DEF Boot, BootFails, PollDue, PollNotDue, ListPending, ListPendingFails,
       TakeFromBatch, BatchDone, Receive, ReceiveRaises, ReceiveFails, ClaimFails, Exit, Crash, ProcessEnds
  <2> QED
    BY <2>1, <2>2
<1>7. ASSUME Backend \/ Tick \/ StopSignal PROVE HandledInv'
  BY <1>7 DEF Backend, Issue, Publish, PublishJunk, Tick, StopSignal, keyVars, engineVars
<1>8. CASE UNCHANGED vars
  BY <1>8 DEF vars, keyVars, engineVars
<1> QED
  BY <1>2, <1>3, <1>4, <1>5, <1>6, <1>7, <1>8 DEF Next, Task

\* processed_at is set only on commands the orchestrator was called with, as long
\* as the process is not killed between the claim and the call, and Redis answers.
THEOREM RetiredWasHandled ==
  ASSUME ~MayCrash, ~RedisMayFail
  PROVE  Spec => []ProcessedWasHandled
<1>1. Init => HandledInv
  BY DEF Init, HandledInv, ProcessedWasHandled
<1>2. Spec => []TypeInv
  BY InitTypeInv, NextTypeInv, PTL DEF Spec
<1>3. TypeInv /\ HandledInv /\ [Next]_vars => HandledInv'
  BY HandledStep
<1>4. HandledInv => ProcessedWasHandled
  BY DEF HandledInv
<1> QED
  BY <1>1, <1>2, <1>3, <1>4, PTL DEF Spec

-----------------------------------------------------------------------------
(* The latest command has the last word                                    *)
(*                                                                         *)
(* When the latest command d of a bot comes from the database, each older  *)
(* command c of that bot is out of play: its key is set, so that a claim   *)
(* of c finds it, or it is stale and not being worked on.  list_pending    *)
(* gives the older command first, which is what makes that true.           *)

IsLast(d) == \A e \in 1..issued : bot[e] = bot[d] => e <= d

FromDb(c) == c \in batch \/ (pc = "claim" /\ cur = c /\ src = "db")

Closed(c) == keys[c] # 0 \/ (Stale(c) /\ ~FromDb(c))

\* The task and what it has recorded of the commands it took.
RecordInv ==
    /\ Holding => src \in {"db", "pubsub"}
    /\ \A c \in processed : keys[c] # 0
    /\ \A c \in applied : dispatched[c] > 0
    /\ pc = "handling" => via[cur] = src /\ dispatched[cur] > 0
    /\ pc = "handling" /\ claims[cur] <= 1 => cur \notin applied

\* bots.status is what the latest command asks for.
StatusInv ==
    \A c \in 1..issued : IsLast(c) => (status[bot[c]] = "up" <=> kind[c] # "stop")

Superseded(c, d) ==
    /\ d \in batch => FromDb(c) \/ Closed(c)
    /\ Holding /\ cur = d /\ src = "db" => Closed(c)
    /\ d \in applied /\ via[d] # "pubsub" =>
          /\ Closed(c)
          /\ claims[c] <= 1 => ~(pc \in {"claimed", "handling"} /\ cur = c /\ src = "db")

OrderInv ==
    \A c, d \in 1..issued : bot[c] = bot[d] /\ c < d /\ IsLast(d) => Superseded(c, d)

Polled(d) ==
    \A c \in 1..issued : bot[c] = bot[d] => via[c] # "pubsub" /\ claims[c] <= 1

LastWordInv ==
    \A d \in 1..issued :
        IsLast(d) /\ d \in applied /\ Polled(d) => (bot[d] \in running <=> kind[d] # "stop")

ConvergeInv == RecordInv /\ StatusInv /\ OrderInv /\ LastWordInv

LEMMA InitConvergeInv == Init => ConvergeInv
<1> SUFFICES ASSUME Init PROVE ConvergeInv
  OBVIOUS
<1>1. issued = 0 /\ processed = {} /\ applied = {} /\ pc = "off"
  BY DEF Init
<1> QED
  BY <1>1 DEF ConvergeInv, RecordInv, StatusInv, OrderInv, LastWordInv, Holding

\* What list_pending leaves out below a command it lists was not eligible.
LEMMA ListedInOrder ==
  ASSUME NEW c \in Commands, NEW d \in Commands, c < d, d \in Listed, Eligible(c)
  PROVE  c \in Listed
<1> DEFINE Below(x) == {e \in Commands : e < x /\ Eligible(e)}
<1>1. IsFiniteSet(Commands)
  BY BoundsAssumption, FS_Interval
<1>2. Below(c) \in SUBSET Below(d) /\ Below(d) \in SUBSET Commands
  OBVIOUS
<1>3. IsFiniteSet(Below(d))
  BY <1>1, <1>2, FS_Subset
<1>4. Cardinality(Below(c)) <= Cardinality(Below(d)) /\ IsFiniteSet(Below(c))
  BY <1>2, <1>3, FS_Subset
<1>5. Cardinality(Below(c)) \in Nat /\ Cardinality(Below(d)) \in Nat
  BY <1>3, <1>4, FS_CardinalityType
<1>6. Cardinality(Below(d)) < BatchSize
  BY DEF Listed
<1>7. Cardinality(Below(c)) < BatchSize
  BY <1>4, <1>5, <1>6, BoundsAssumption
<1> QED
  BY <1>7 DEF Listed

\* A command that is closed stays so, unless it is listed or taken again.
LEMMA ClosedStays ==
  ASSUME TypeInv, TypeInv', NEW c \in 1..issued, Closed(c),
         now' >= now, UNCHANGED <<created, kind, bot>>,
         status'[bot[c]] = status[bot[c]],
         keys[c] # 0 => keys'[c] # 0,
         FromDb(c)' => FromDb(c)
  PROVE  Closed(c)'
<1>1. c \in Commands /\ created[c] \in Nat /\ now \in Nat /\ now' \in Nat /\ MaxAge \in Nat
  BY BoundsAssumption, ListenerFacts DEF TypeInv, TypeOK
<1>2. Stale(c) => Stale(c)'
  BY <1>1 DEF Stale
<1> QED
  BY <1>2 DEF Closed

\* Steps that leave the rows, the keys and the record of the calls alone, and
\* neither put a command of the database in hand nor list one.
LEMMA IdleConverge ==
  ASSUME TypeInv, TypeInv', ConvergeInv, now' >= now,
         UNCHANGED <<issued, kind, bot, created, status, keys, claims, dispatched, via, running>>,
         processed' = processed \/ (processed' = processed \cup {cur} /\ keys[cur] # 0),
         applied' = applied \/ applied' = {},
         batch' = {} \/ (batch' = batch /\ (pc = "claim" => UNCHANGED <<pc, cur, src>>)),
         \/ ~Holding'
         \/ UNCHANGED <<pc, cur, src>>
         \/ pc' = "claim" /\ src' = "pubsub"
  PROVE  ConvergeInv'
<1>1. /\ Holding' => src' \in {"db", "pubsub"}
      /\ pc' = "handling" => UNCHANGED <<pc, cur, src>>
      /\ pc' = "claim" /\ src' = "db" => UNCHANGED <<pc, cur, src>>
      /\ pc' = "claimed" => UNCHANGED <<pc, cur, src>>
  BY DEF ConvergeInv, RecordInv, Holding
<1>2. RecordInv'
  BY <1>1 DEF ConvergeInv, RecordInv
<1>3. StatusInv'
  BY DEF ConvergeInv, StatusInv, IsLast
<1>4. OrderInv'
  <2> SUFFICES ASSUME NEW c \in 1..issued, NEW d \in 1..issued,
                      bot[c] = bot[d], c < d, IsLast(d)
               PROVE  Superseded(c, d)'
    BY DEF OrderInv, IsLast
  <2>1. Superseded(c, d)
    BY DEF ConvergeInv, OrderInv
  <2>2. FromDb(c)' => FromDb(c)
    BY <1>1 DEF FromDb
  <2>3. Closed(c) => Closed(c)'
    BY <2>2, ClosedStays
  <2>4. d \in batch' => FromDb(c)' \/ Closed(c)'
    <3> SUFFICES ASSUME d \in batch' PROVE FromDb(c)' \/ Closed(c)'
      OBVIOUS
    <3>1. batch' = batch
      OBVIOUS
    <3>2. CASE Closed(c)
      BY <2>3, <3>2
    <3>3. CASE FromDb(c)
      BY <3>1, <3>3 DEF FromDb
    <3> QED
      BY <2>1, <3>1, <3>2, <3>3 DEF Superseded
  <2>5. (Holding /\ cur = d /\ src = "db")' => Closed(c)'
    BY <1>1, <2>1, <2>3 DEF Superseded, Holding
  <2>6. d \in applied' /\ via'[d] # "pubsub" =>
          /\ Closed(c)'
          /\ claims'[c] <= 1 => ~(pc' \in {"claimed", "handling"} /\ cur' = c /\ src' = "db")
    BY <1>1, <2>1, <2>3 DEF Superseded
  <2> QED
    BY <2>4, <2>5, <2>6 DEF Superseded
<1>5. LastWordInv'
  BY DEF ConvergeInv, LastWordInv, IsLast, Polled
<1> QED
  BY <1>2, <1>3, <1>4, <1>5 DEF ConvergeInv

LEMMA IssueConverge ==
  ASSUME TypeInv, TypeInv', ConvergeInv, NEW b \in Bots, NEW k \in UserKinds, Issue(b, k)
  PROVE  ConvergeInv'
<1>0. issued \in Nat /\ issued + 1 \in Commands /\ 1..issued' = 1..issued \cup {issued + 1}
  <2>1. issued' = issued + 1 /\ issued < MaxCommands
    BY Zenon DEF Issue
  <2>2. issued \in Nat /\ MaxCommands \in Nat
    BY ListenerFacts
  <2> QED
    BY <2>1, <2>2
<1>1. /\ issued' = issued + 1
      /\ bot' = [bot EXCEPT ![issued + 1] = b] /\ kind' = [kind EXCEPT ![issued + 1] = k]
      /\ created' = [created EXCEPT ![issued + 1] = now]
      /\ status' = [status EXCEPT ![b] = IF k = "stop" THEN "down" ELSE "up"]
      /\ UNCHANGED <<now, processed, keys, claims, pc, batch, cur, src, running, dispatched, via, applied>>
  <2>1. /\ issued' = issued + 1
        /\ bot' = [bot EXCEPT ![issued + 1] = b]
        /\ kind' = [kind EXCEPT ![issued + 1] = k]
    BY Zenon DEF Issue
  <2>2. /\ created' = [created EXCEPT ![issued + 1] = now]
        /\ status' = [status EXCEPT ![b] = IF k = "stop" THEN "down" ELSE "up"]
    BY Zenon DEF Issue
  <2>3. UNCHANGED <<now, processed, keyVars, pc, batch, cur, src, engineVars>>
    BY DEF Issue
  <2> QED
    BY <2>1, <2>2, <2>3 DEF keyVars, engineVars
<1>2. /\ bot \in [Commands -> Bots] /\ kind \in [Commands -> Kinds]
      /\ created \in [Commands -> Nat] /\ status \in [Bots -> {"up", "down"}]
      /\ 1..issued \subseteq Commands
  BY ListenerFacts DEF TypeInv, TypeOK
\* The new command is its bot's latest; the other bots' latest stay.
<1>3. \A d \in 1..issued : IsLast(d)' => IsLast(d) /\ bot[d] # b
  <2> SUFFICES ASSUME NEW d \in 1..issued, IsLast(d)' PROVE IsLast(d) /\ bot[d] # b
    OBVIOUS
  <2>1. \A e \in 1..issued : bot'[e] = bot[e] /\ e # issued + 1
    BY <1>0, <1>1, <1>2
  <2>2. bot'[issued + 1] = b
    BY <1>0, <1>1, <1>2
  <2> QED
    BY <1>0, <2>1, <2>2 DEF IsLast
<1>4. RecordInv'
  BY <1>1 DEF ConvergeInv, RecordInv, Holding
<1>5. StatusInv'
  <2> SUFFICES ASSUME NEW c \in 1..issued', IsLast(c)'
               PROVE  status'[bot'[c]] = "up" <=> kind'[c] # "stop"
    BY DEF StatusInv
  <2>1. CASE c = issued + 1
    BY <1>0, <1>1, <1>2, <2>1
  <2>2. CASE c \in 1..issued
    <3>1. /\ IsLast(c) /\ bot[c] # b /\ bot'[c] = bot[c] /\ kind'[c] = kind[c]
          /\ status'[bot[c]] = status[bot[c]]
      BY <1>0, <1>1, <1>2, <1>3, <2>2
    <3> QED
      BY <2>2, <3>1 DEF ConvergeInv, StatusInv
  <2> QED
    BY <1>0, <2>1, <2>2
<1>6. OrderInv'
  <2> SUFFICES ASSUME NEW c \in 1..issued', NEW d \in 1..issued',
                      bot'[c] = bot'[d], c < d, IsLast(d)'
               PROVE  Superseded(c, d)'
    BY DEF OrderInv
  <2>1. CASE d = issued + 1
    <3>1. d \notin batch' /\ d \notin applied' /\ ~(Holding' /\ cur' = d)
      BY <1>0, <1>1, <2>1, ListenerFacts DEF Holding
    <3> QED
      BY <3>1 DEF Superseded
  <2>2. CASE d \in 1..issued
    <3>1. c \in 1..issued
      BY <1>0, <2>2
    <3>2. /\ bot'[c] = bot[c] /\ bot'[d] = bot[d] /\ kind'[c] = kind[c]
          /\ created'[c] = created[c] /\ bot[c] # b /\ IsLast(d)
          /\ status'[bot[c]] = status[bot[c]]
      BY <1>0, <1>1, <1>2, <1>3, <2>2, <3>1
    <3>3. Superseded(c, d)
      BY <2>2, <3>1, <3>2 DEF ConvergeInv, OrderInv
    <3>4. Closed(c) => Closed(c)'
      BY <1>1, <3>2 DEF Closed, Stale, FromDb
    <3> QED
      BY <1>1, <3>3, <3>4 DEF Superseded, FromDb, Holding
  <2> QED
    BY <1>0, <2>1, <2>2
<1>7. LastWordInv'
  <2> SUFFICES ASSUME NEW d \in 1..issued', IsLast(d)', d \in applied', Polled(d)'
               PROVE  bot'[d] \in running' <=> kind'[d] # "stop"
    BY DEF LastWordInv
  <2>1. d \in 1..issued
    BY <1>1, ListenerFacts
  <2>2. bot'[d] = bot[d] /\ kind'[d] = kind[d] /\ IsLast(d)
    BY <1>0, <1>1, <1>2, <1>3, <2>1
  <2>3. \A c \in 1..issued : bot'[c] = bot[c] /\ c \in 1..issued'
    BY <1>0, <1>1, <1>2
  <2>4. Polled(d)
    BY <1>1, <2>2, <2>3 DEF Polled
  <2> QED
    BY <1>1, <2>1, <2>2, <2>4 DEF ConvergeInv, LastWordInv
<1> QED
  BY <1>4, <1>5, <1>6, <1>7 DEF ConvergeInv

LEMMA ListPendingConverge ==
  ASSUME TypeInv, TypeInv', ConvergeInv, ListPending
  PROVE  ConvergeInv'
<1>1. /\ pc = "poll" /\ pc' = "batch" /\ batch' = Listed
      /\ UNCHANGED <<now, issued, kind, bot, created, status, processed, keys, claims, cur, src,
                     running, dispatched, via, applied>>
  BY DEF ListPending, backendVars, keyVars, engineVars
<1>2. RecordInv' /\ StatusInv' /\ LastWordInv'
  BY <1>1 DEF ConvergeInv, RecordInv, StatusInv, LastWordInv, IsLast, Polled, Holding
<1>3. OrderInv'
  <2> SUFFICES ASSUME NEW c \in 1..issued, NEW d \in 1..issued,
                      bot[c] = bot[d], c < d, IsLast(d)
               PROVE  Superseded(c, d)'
    BY <1>1 DEF OrderInv, IsLast
  <2>1. Superseded(c, d) /\ c \in Commands /\ d \in Commands
    BY ListenerFacts DEF ConvergeInv, OrderInv
  <2>2. FromDb(c)' <=> c \in Listed
    BY <1>1 DEF FromDb
  <2>3. Closed(c)' <=> (keys[c] # 0 \/ (Stale(c) /\ c \notin Listed))
    BY <1>1, <2>2 DEF Closed, Stale
  <2>4. ASSUME d \in Listed PROVE FromDb(c)' \/ Closed(c)'
    <3>1. CASE Eligible(c)
      BY <2>1, <2>2, <2>4, <3>1, ListedInOrder
    <3>2. CASE c \in processed
      BY <2>3, <3>2 DEF ConvergeInv, RecordInv
    <3>3. CASE ~Eligible(c) /\ c \notin processed
      <4>1. created[c] + MaxAge \in Nat /\ now \in Nat
        BY <2>1, ListenerFacts
      <4>2. Stale(c)
        BY <3>3, <4>1 DEF Eligible, Stale
      <4>3. c \notin Listed
        BY <3>3 DEF Listed
      <4> QED
        BY <2>3, <4>2, <4>3
    <3> QED
      BY <3>1, <3>2, <3>3
  <2>5. ASSUME d \in applied, via[d] # "pubsub" PROVE Closed(c)'
    <3>1. keys[c] # 0 \/ Stale(c)
      BY <2>1, <2>5 DEF Superseded, Closed
    <3>2. CASE keys[c] # 0
      BY <2>3, <3>2
    <3>3. CASE Stale(c)
      <4>1. created[c] + MaxAge \in Nat /\ now \in Nat
        BY <2>1, ListenerFacts
      <4>2. ~Eligible(c)
        BY <3>3, <4>1 DEF Eligible, Stale
      <4> QED
        BY <2>3, <3>3, <4>2 DEF Listed
    <3> QED
      BY <3>1, <3>2, <3>3
  <2> QED
    BY <1>1, <2>4, <2>5 DEF Superseded, Holding
<1> QED
  BY <1>2, <1>3 DEF ConvergeInv

LEMMA TakeConverge ==
  ASSUME TypeInv, TypeInv', ConvergeInv, TakeFromBatch
  PROVE  ConvergeInv'
<1>1. PICK e \in batch : (\A d \in batch : e <= d) /\ cur' = e /\ batch' = batch \ {e}
  BY DEF TakeFromBatch
<1>2. /\ pc = "batch" /\ pc' = "claim" /\ src' = "db"
      /\ UNCHANGED <<now, issued, kind, bot, created, status, processed, keys, claims,
                     running, dispatched, via, applied>>
  BY DEF TakeFromBatch, backendVars, keyVars, engineVars
<1>3. RecordInv' /\ StatusInv' /\ LastWordInv'
  BY <1>2 DEF ConvergeInv, RecordInv, StatusInv, LastWordInv, IsLast, Polled, Holding
<1>4. OrderInv'
  <2> SUFFICES ASSUME NEW c \in 1..issued, NEW d \in 1..issued,
                      bot[c] = bot[d], c < d, IsLast(d)
               PROVE  Superseded(c, d)'
    BY <1>2 DEF OrderInv, IsLast
  <2>1. Superseded(c, d)
    BY DEF ConvergeInv, OrderInv
  <2>2. FromDb(c)' => FromDb(c)
    BY <1>1, <1>2 DEF FromDb
  <2>3. Closed(c) => Closed(c)'
    BY <1>2, <2>2, ClosedStays, ListenerFacts
  <2>4. ASSUME d \in batch' PROVE FromDb(c)' \/ Closed(c)'
    BY <1>1, <1>2, <2>1, <2>3, <2>4 DEF Superseded, FromDb
  <2>5. ASSUME e = d PROVE Closed(c)'
    <3>1. c \notin batch
      BY <1>1, <2>5, ListenerFacts
    <3> QED
      BY <1>1, <1>2, <2>1, <2>3, <2>5, <3>1 DEF Superseded, FromDb
  <2> QED
    BY <1>1, <1>2, <2>1, <2>3, <2>4, <2>5 DEF Superseded
<1> QED
  BY <1>3, <1>4 DEF ConvergeInv

LEMMA ClaimConverge ==
  ASSUME DeliveryInv, TypeInv', ConvergeInv, Claim
  PROVE  ConvergeInv'
<1>0. TypeInv
  BY DEF DeliveryInv
<1>1. /\ pc = "claim"
      /\ UNCHANGED <<now, issued, kind, bot, created, status, processed, batch, cur, src,
                     running, dispatched, via, applied>>
  BY DEF Claim, backendVars, keyVars, engineVars
<1>2. cur \in 1..issued /\ cur \in Commands /\ 1..issued \subseteq Commands
      /\ keys \in [Commands -> Nat] /\ claims \in [Commands -> Nat]
      /\ now \in Nat /\ DedupTtl \in Nat \ {0}
  BY <1>0, <1>1, ListenerFacts DEF Holding
<1>3. /\ keys'[cur] # 0
      /\ \A c \in Commands : keys[c] # 0 => keys'[c] # 0
      /\ \A c \in Commands : claims'[c] <= 1 => claims[c] <= 1
      /\ pc' = "mark" \/ (pc' = "claimed" /\ (keys[cur] # 0 => ~(claims'[cur] <= 1)))
  <2>1. CASE HasKey(cur)
    BY <1>2, <2>1 DEF Claim, HasKey, keyVars
  <2>2. CASE ~HasKey(cur)
    <3>1. /\ pc' = "claimed" /\ keys' = [keys EXCEPT ![cur] = now + DedupTtl]
          /\ claims' = [claims EXCEPT ![cur] = @ + 1]
      BY <2>2 DEF Claim, SetKey
    <3>2. keys'[cur] = now + DedupTtl /\ claims'[cur] = claims[cur] + 1
          /\ \A c \in Commands \ {cur} : keys'[c] = keys[c] /\ claims'[c] = claims[c]
      BY <1>2, <3>1
    <3>3. keys[cur] # 0 => claims[cur] # 0
      BY <1>2 DEF DeliveryInv, KeyInv
    <3>4. now + DedupTtl # 0
      BY <1>2
    <3>5. claims'[cur] <= 1 => claims[cur] <= 1 /\ claims[cur] = 0
      BY <1>2, <3>2
    <3> QED
      BY <3>1, <3>2, <3>3, <3>4, <3>5
  <2> QED
    BY <2>1, <2>2
<1>4. RecordInv'
  <2>1. processed \subseteq Commands
    BY <1>0, <1>2, ListenerFacts
  <2> QED
    BY <1>1, <1>3, <2>1 DEF ConvergeInv, RecordInv, Holding
<1>5. StatusInv' /\ LastWordInv'
  BY <1>1, <1>2, <1>3 DEF ConvergeInv, StatusInv, LastWordInv, IsLast, Polled
<1>6. OrderInv'
  <2> SUFFICES ASSUME NEW c \in 1..issued, NEW d \in 1..issued,
                      bot[c] = bot[d], c < d, IsLast(d)
               PROVE  Superseded(c, d)'
    BY <1>1 DEF OrderInv, IsLast
  <2>1. Superseded(c, d)
    BY DEF ConvergeInv, OrderInv
  <2>2. FromDb(c)' => FromDb(c)
    BY <1>1, <1>3 DEF FromDb
  <2>3. Closed(c) => Closed(c)'
    BY <1>0, <1>1, <1>2, <1>3, <2>2, ClosedStays
  <2>4. cur = c => Closed(c)'
    BY <1>3 DEF Closed
  <2>5. ASSUME d \in batch' PROVE FromDb(c)' \/ Closed(c)'
    BY <1>1, <2>1, <2>3, <2>4, <2>5 DEF Superseded, FromDb
  <2>6. (Holding /\ cur = d /\ src = "db")' => Closed(c)'
    BY <1>1, <2>1, <2>3 DEF Superseded, Holding
  <2>7. ASSUME d \in applied', via'[d] # "pubsub"
        PROVE  /\ Closed(c)'
               /\ claims'[c] <= 1 => ~(pc' \in {"claimed", "handling"} /\ cur' = c /\ src' = "db")
    <3>1. Closed(c)
      BY <1>1, <2>1, <2>7 DEF Superseded
    <3>2. cur = c /\ src = "db" => keys[c] # 0
      BY <1>1, <3>1 DEF Closed, FromDb
    <3> QED
      BY <1>1, <1>3, <2>3, <3>1, <3>2
  <2> QED
    BY <2>5, <2>6, <2>7 DEF Superseded
<1> QED
  BY <1>4, <1>5, <1>6 DEF ConvergeInv

LEMMA DispatchConverge ==
  ASSUME DeliveryInv, TypeInv', ConvergeInv, Dispatch
  PROVE  ConvergeInv'
<1>0. TypeInv
  BY DEF DeliveryInv
<1>1. /\ pc = "claimed" /\ pc' = "handling"
      /\ dispatched' = [dispatched EXCEPT ![cur] = @ + 1]
      /\ via' = [via EXCEPT ![cur] = src]
      /\ UNCHANGED <<now, issued, kind, bot, created, status, processed, keys, claims, batch, cur,
                     src, running, applied>>
  BY DEF Dispatch, backendVars, keyVars
<1>2. cur \in 1..issued /\ cur \in Commands /\ 1..issued \subseteq Commands
      /\ src \in {"db", "pubsub"}
  BY <1>0, <1>1, ListenerFacts DEF Holding, ConvergeInv, RecordInv
<1>3. /\ dispatched \in [Commands -> Nat] /\ via \in [Commands -> {"none", "db", "pubsub"}]
      /\ applied \subseteq Commands
  BY <1>0, <1>2, ListenerFacts
<1>4. claims[cur] <= 1 => cur \notin applied
  <2>1. claims[cur] \in Nat /\ dispatched[cur] \in Nat
    BY <1>0, <1>2, ListenerFacts
  <2>2. claims[cur] <= 1 => dispatched[cur] = 0
    BY <1>1, <2>1 DEF DeliveryInv, KeyInv
  <2> QED
    BY <2>2 DEF ConvergeInv, RecordInv
<1>5. /\ dispatched'[cur] > 0 /\ via'[cur] = src
      /\ \A c \in Commands \ {cur} : via'[c] = via[c] /\ dispatched'[c] = dispatched[c]
  BY <1>1, <1>2, <1>3
<1>6. RecordInv'
  BY <1>1, <1>2, <1>3, <1>4, <1>5 DEF ConvergeInv, RecordInv, Holding
<1>7. StatusInv'
  BY <1>1 DEF ConvergeInv, StatusInv, IsLast
<1>8. OrderInv'
  <2> SUFFICES ASSUME NEW c \in 1..issued, NEW d \in 1..issued,
                      bot[c] = bot[d], c < d, IsLast(d)
               PROVE  Superseded(c, d)'
    BY <1>1 DEF OrderInv, IsLast
  <2>1. Superseded(c, d)
    BY DEF ConvergeInv, OrderInv
  <2>2. (FromDb(c)' <=> FromDb(c)) /\ (Closed(c)' <=> Closed(c))
    BY <1>1 DEF FromDb, Closed, Stale
  <2>3. d # cur => via'[d] = via[d]
    BY <1>2, <1>5
  <2>4. d = cur /\ via'[d] # "pubsub" => Closed(c) /\ cur # c
    BY <1>1, <1>2, <1>5, <2>1 DEF Superseded, Holding
  <2> QED
    BY <1>1, <2>1, <2>2, <2>3, <2>4 DEF Superseded, Holding
<1>9. LastWordInv'
  <2> SUFFICES ASSUME NEW d \in 1..issued, IsLast(d), d \in applied, Polled(d)'
               PROVE  bot[d] \in running <=> kind[d] # "stop"
    BY <1>1 DEF LastWordInv, IsLast
  <2>1. d # cur /\ via'[d] = via[d] /\ via[d] # "pubsub"
    BY <1>1, <1>2, <1>4, <1>5 DEF Polled
  <2>2. \A c \in 1..issued :
            c # cur /\ bot[c] = bot[d] => via[c] # "pubsub" /\ claims[c] <= 1
    BY <1>1, <1>2, <1>5 DEF Polled
  <2>3. bot[cur] # bot[d]
    <3> SUFFICES ASSUME bot[cur] = bot[d] PROVE FALSE
      OBVIOUS
    <3>1. src = "db" /\ claims[cur] <= 1
      BY <1>1, <1>2, <1>5 DEF Polled
    <3>2. cur < d
      BY <1>2, <2>1 DEF IsLast
    <3>3. Superseded(cur, d)
      BY <1>2, <3>2 DEF ConvergeInv, OrderInv
    <3> QED
      BY <1>1, <2>1, <3>1, <3>3 DEF Superseded
  <2>4. Polled(d)
    BY <2>2, <2>3 DEF Polled
  <2> QED
    BY <2>4 DEF ConvergeInv, LastWordInv
<1> QED
  BY <1>6, <1>7, <1>8, <1>9 DEF ConvergeInv

\* A handler that returns has done what its command asks for; one that raises
\* is not recorded as applied.
LEMMA HandleEffect ==
  ASSUME TypeInv, Handle
  PROVE  /\ pc = "handling" /\ pc' = "mark"
         /\ UNCHANGED <<now, issued, kind, bot, created, status, processed, keys, claims, batch, cur,
                        src, dispatched, via>>
         /\ \/ applied' = applied
            \/ applied' = applied \cup {cur} /\ (bot[cur] \in running' <=> kind[cur] # "stop")
         /\ \A b \in Bots : b # bot[cur] => (b \in running' <=> b \in running)
BY DEF Handle, HandleStart, HandleStop, HandleUpdate, Returned, backendVars, keyVars

LEMMA HandleConverge ==
  ASSUME TypeInv, TypeInv', ConvergeInv, Handle
  PROVE  ConvergeInv'
<1>1. /\ pc = "handling" /\ pc' = "mark"
      /\ UNCHANGED <<now, issued, kind, bot, created, status, processed, keys, claims, batch, cur,
                     src, dispatched, via>>
      /\ \/ applied' = applied
         \/ applied' = applied \cup {cur} /\ (bot[cur] \in running' <=> kind[cur] # "stop")
      /\ \A b \in Bots : b # bot[cur] => (b \in running' <=> b \in running)
  BY HandleEffect
<1>2. /\ cur \in 1..issued /\ src \in {"db", "pubsub"}
      /\ via[cur] = src /\ dispatched[cur] > 0 /\ (claims[cur] <= 1 => cur \notin applied)
      /\ \A c \in 1..issued : bot[c] \in Bots
  BY <1>1, ListenerFacts DEF Holding, ConvergeInv, RecordInv
<1>3. RecordInv'
  BY <1>1, <1>2 DEF ConvergeInv, RecordInv, Holding
<1>4. StatusInv'
  BY <1>1 DEF ConvergeInv, StatusInv, IsLast
<1>5. OrderInv'
  <2> SUFFICES ASSUME NEW c \in 1..issued, NEW d \in 1..issued,
                      bot[c] = bot[d], c < d, IsLast(d)
               PROVE  Superseded(c, d)'
    BY <1>1 DEF OrderInv, IsLast
  <2>1. Superseded(c, d)
    BY DEF ConvergeInv, OrderInv
  <2>2. (FromDb(c)' <=> FromDb(c)) /\ (Closed(c)' <=> Closed(c))
    BY <1>1 DEF FromDb, Closed, Stale
  <2>3. d = cur /\ via[d] # "pubsub" => Closed(c)
    BY <1>1, <1>2, <2>1 DEF Superseded, Holding
  <2> QED
    BY <1>1, <1>2, <2>1, <2>2, <2>3 DEF Superseded, Holding
<1>6. LastWordInv'
  <2> SUFFICES ASSUME NEW d \in 1..issued, IsLast(d), d \in applied', Polled(d)
               PROVE  bot[d] \in running' <=> kind[d] # "stop"
    BY <1>1 DEF LastWordInv, IsLast, Polled
  <2>1. CASE d = cur
    BY <1>1, <1>2, <2>1 DEF Polled
  <2>2. CASE d # cur
    <3>1. d \in applied /\ via[d] # "pubsub"
      BY <1>1, <2>2 DEF Polled
    <3>2. bot[cur] # bot[d]
      <4> SUFFICES ASSUME bot[cur] = bot[d] PROVE FALSE
        OBVIOUS
      <4>1. src = "db" /\ cur < d /\ claims[cur] <= 1
        BY <1>2, <2>2 DEF IsLast, Polled
      <4>2. Superseded(cur, d)
        BY <1>2, <4>1 DEF ConvergeInv, OrderInv
      <4> QED
        BY <1>1, <3>1, <4>1, <4>2 DEF Superseded
    <3>3. bot[d] \in running' <=> bot[d] \in running
      BY <1>1, <1>2, <3>2
    <3> QED
      BY <3>1, <3>3 DEF ConvergeInv, LastWordInv
  <2> QED
    BY <2>1, <2>2
<1> QED
  BY <1>3, <1>4, <1>5, <1>6 DEF ConvergeInv

LEMMA NextConverge ==
  ASSUME ~RedisMayFail, DeliveryInv, DeliveryInv', ConvergeInv, [Next]_vars
  PROVE  ConvergeInv'
<1>0. TypeInv /\ TypeInv' /\ now \in Nat
  BY ListenerFacts DEF DeliveryInv
<1>1. CASE Backend
  <2>1. ASSUME NEW b \in Bots, NEW k \in UserKinds, Issue(b, k) PROVE ConvergeInv'
    BY <1>0, <2>1, IssueConverge
  <2>2. ASSUME \/ \E c \in Commands : Publish(c)
               \/ \E j \in Junk : PublishJunk(j)
        PROVE  ConvergeInv'
    BY <1>0, <2>2, IdleConverge DEF Publish, PublishJunk, backendVars, keyVars, engineVars
  <2> QED
    BY <1>1, <2>1, <2>2 DEF Backend
<1>2. CASE Tick \/ StopSignal \/ UNCHANGED vars
  <2>1. /\ now' >= now
        /\ UNCHANGED <<issued, kind, bot, created, status, keys, claims, dispatched, via, running,
                       processed, applied, batch, pc, cur, src>>
    BY <1>0, <1>2 DEF Tick, StopSignal, vars, backendVars, keyVars, engineVars
  <2> QED
    BY <1>0, <2>1, IdleConverge
<1>3. CASE \/ Boot \/ BootFails \/ PollDue \/ PollNotDue \/ ListPendingFails \/ BatchDone
           \/ ReceiveRaises \/ ReceiveFails \/ MarkProcessedFails
  <2>1. /\ now' >= now /\ pc # "claim" /\ ~Holding'
        /\ UNCHANGED <<issued, kind, bot, created, status, keys, claims, dispatched, via, running,
                       processed, applied, batch>>
    BY <1>0, <1>3 DEF Boot, BootFails, PollDue, PollNotDue, ListPendingFails, BatchDone,
       ReceiveRaises, ReceiveFails, MarkProcessedFails, Holding, backendVars, keyVars, engineVars
  <2> QED
    BY <1>0, <2>1, IdleConverge
<1>4. CASE Receive
  <2>1. /\ now' >= now /\ pc = "recv" /\ (pc' = "loop" \/ (pc' = "claim" /\ src' = "pubsub"))
        /\ UNCHANGED <<issued, kind, bot, created, status, keys, claims, dispatched, via, running,
                       processed, applied, batch>>
    BY <1>0, <1>4 DEF Receive, backendVars, keyVars, engineVars
  <2> QED
    BY <1>0, <2>1, IdleConverge DEF Holding
<1>5. CASE MarkProcessed
  <2>1. /\ now' >= now /\ pc = "mark" /\ ~Holding' /\ processed' = processed \cup {cur}
        /\ UNCHANGED <<issued, kind, bot, created, status, keys, claims, dispatched, via, running,
                       applied, batch>>
    BY <1>0, <1>5 DEF MarkProcessed, Holding, backendVars, keyVars, engineVars
  <2>2. keys[cur] # 0
    <3>1. cur \in Commands /\ claims[cur] \in Nat
      BY <1>0, <2>1, ListenerFacts DEF Holding
    <3> QED
      BY <2>1, <3>1 DEF DeliveryInv, KeyInv
  <2> QED
    BY <1>0, <2>1, <2>2, IdleConverge
<1>6. CASE Exit \/ Crash
  <2>1. /\ now' = now /\ pc' = "off" /\ batch' = {} /\ applied' = {} /\ running' = {}
        /\ UNCHANGED <<issued, kind, bot, created, status, keys, claims, dispatched, via, processed>>
    BY <1>6 DEF Exit, Crash, ProcessEnds, backendVars, keyVars
  <2> QED
    BY <2>1 DEF ConvergeInv, RecordInv, StatusInv, OrderInv, LastWordInv, Superseded, IsLast,
       Holding
<1>7. CASE ListPending \/ TakeFromBatch \/ Claim \/ ClaimFails \/ Dispatch \/ Handle
  <2>1. ~ClaimFails
    BY DEF ClaimFails
  <2> QED
    BY <1>0, <1>7, <2>1, ListPendingConverge, TakeConverge, ClaimConverge, DispatchConverge,
       HandleConverge
<1> QED
  BY <1>1, <1>2, <1>3, <1>4, <1>5, <1>6, <1>7 DEF Next, Task

\* A bot whose commands were all taken from the database, and claimed once each,
\* does what its latest command says once that one's handler returned, whatever was listed, raised,
\* failed to be marked, reversed by the user or cut off by a crash before.
THEOREM PolledBotsConverge ==
  ASSUME ~RedisMayFail
  PROVE  Spec => []ConvergesWhenPolled
<1>1. ConvergeInv /\ DeliveryInv /\ DeliveryInv' /\ [Next]_vars => ConvergeInv'
  BY NextConverge
<1>2. DeliveryInv /\ ConvergeInv => ConvergesWhenPolled
  <2> SUFFICES ASSUME DeliveryInv, ConvergeInv, NEW b \in Bots, NEW last \in LastOf(b),
                      last \in applied,
                      \A c \in 1..issued : bot[c] = b => via[c] # "pubsub" /\ claims[c] <= 1
               PROVE  b \in running <=> status[b] = "up"
    BY DEF ConvergesWhenPolled
  <2>1. last \in 1..issued /\ bot[last] = b /\ IsLast(last)
    BY DEF LastOf, IsLast
  <2>2. status[b] = "up" <=> kind[last] # "stop"
    BY <2>1 DEF ConvergeInv, StatusInv
  <2>3. Polled(last)
    BY <2>1 DEF Polled
  <2> QED
    BY <2>1, <2>2, <2>3 DEF ConvergeInv, LastWordInv
<1> QED
  BY <1>1, <1>2, InitConvergeInv, DeliveryInvInvariant, PTL DEF Spec
=============================================================================
