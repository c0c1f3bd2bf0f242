----------------------------- MODULE SerialProofs ---------------------------
(***************************************************************************)
(* SerialRun for any chains and any amount of input: why run() fails, and  *)
(* that every variable keeps its type.                                     *)
(***************************************************************************)
EXTENDS SerialRun, TLAPS

\* Only stop() revokes the generation and shuts the backend, and input that
\* the backend had before a pop is there after it unless it was shut.
CauseInv ==
  /\ down \in BOOLEAN /\ closed \in BOOLEAN /\ revoked \in BOOLEAN /\ fault \in BOOLEAN
  /\ input \in Nat
  /\ revoked \/ closed => down
  /\ stopping # "no" => down
  /\ pc \in {"popRx", "readRx"} => input # 0 \/ down
  /\ FailureHasCause

\* The driver, the host side and the transport.
LEMMA CauseOutside ==
  ASSUME CauseInv,
         \/ \E r \in Requests : Post(r) \/ Collect(r)
         \/ PostBuffer \/ CollectBuffer \/ Input \/ Kick
         \/ StopDown \/ StopClose \/ StopRevoke \/ StopNotify
  PROVE  CauseInv'
<1> USE DEF CauseInv, FailureHasCause, stopVars, receive
<1>1. CASE \/ \E r \in Requests : Post(r) \/ Collect(r)
           \/ PostBuffer \/ CollectBuffer \/ Kick
  BY <1>1 DEF Post, Collect, PostBuffer, CollectBuffer, Kick
<1>2. CASE Input
  BY <1>2 DEF Input
<1>3. CASE StopDown \/ StopClose \/ StopRevoke \/ StopNotify
  <2>1. down' /\ UNCHANGED fault
    BY <1>3 DEF StopDown, StopClose, StopRevoke, StopNotify
  <2>2. input' \in Nat
    BY <1>3 DEF StopDown, StopClose, StopRevoke, StopNotify
  <2>3. down' \in BOOLEAN /\ closed' \in BOOLEAN /\ revoked' \in BOOLEAN /\ fault' \in BOOLEAN
    BY Zenon, <1>3 DEF StopDown, StopClose, StopRevoke, StopNotify
  <2> QED
    BY <2>1, <2>2, <2>3
<1> QED
  BY <1>1, <1>2, <1>3

\* A step of run() that does not fail.
LEMMA CauseGoto ==
  ASSUME CauseInv, UNCHANGED <<stopVars, result, fault>>, input' \in Nat,
         pc' \in {"popRx", "readRx"} => input' # 0 \/ down
  PROVE  CauseInv'
BY DEF CauseInv, FailureHasCause, stopVars

\* A step of run() that fails: after stop(), or for a fault outside.
LEMMA CauseFail ==
  ASSUME CauseInv, UNCHANGED stopVars, input' = input, NEW from, Fail(from),
         fault' \in BOOLEAN, down \/ fault'
  PROVE  CauseInv'
BY DEF CauseInv, FailureHasCause, stopVars, Fail, Goto

\* Every step of run() keeps the invariant.
LEMMA CauseRun == ASSUME CauseInv, Run PROVE CauseInv'
<1>1. CASE Subscribe \/ Check \/ Await \/ Recheck
  BY <1>1, CauseGoto DEF Subscribe, Check, Await, Recheck, Goto, receive, CauseInv
<1>2. CASE PopTransmit
  <2>1. CASE revoked
    BY <1>2, <2>1, CauseFail DEF PopTransmit, receive, CauseInv
  <2>2. CASE ~revoked
    BY <1>2, <2>2, CauseGoto DEF PopTransmit, Goto, receive, CauseInv
  <2> QED
    BY <2>1, <2>2
<1>3. CASE ReadChain
  <2>1. PICK r :
          \/ (revoked \/ r \in Faulty) /\ Fail("read") /\ fault' = (fault \/ ~revoked)
          \/ Goto("read", "apply") /\ UNCHANGED <<result, fault>>
    BY <1>3 DEF ReadChain
  <2>2. UNCHANGED stopVars /\ input' = input
    BY <1>3 DEF ReadChain, receive
  <2>3. fault \in BOOLEAN /\ revoked \in BOOLEAN /\ (revoked => down)
    BY DEF CauseInv
  <2> QED
    BY Zenon, <2>1, <2>2, <2>3, CauseFail, CauseGoto DEF Goto, CauseInv
<1>4. CASE Apply
  <2>1. PICK r :
          \/ (closed \/ r \in Faulty) /\ Fail("apply") /\ fault' = (fault \/ ~closed)
          \/ Goto("apply", "complete") /\ UNCHANGED <<result, fault>>
    BY <1>4 DEF Apply
  <2>2. UNCHANGED stopVars /\ input' = input
    BY <1>4 DEF Apply, receive
  <2>3. fault \in BOOLEAN /\ closed \in BOOLEAN /\ (closed => down)
    BY DEF CauseInv
  <2> QED
    BY Zenon, <2>1, <2>2, <2>3, CauseFail, CauseGoto DEF Goto, CauseInv
<1>5. CASE CompleteTransmit
  <2>1. CASE revoked
    BY <1>5, <2>1, CauseFail DEF CompleteTransmit, receive, CauseInv
  <2>2. CASE ~revoked
    BY <1>5, <2>2, CauseGoto DEF CompleteTransmit, Goto, receive, CauseInv
  <2> QED
    BY <2>1, <2>2
<1>6. CASE NotifyTransmit \/ NotifyReceive
  BY Zenon, <1>6, CauseFail, CauseGoto DEF NotifyTransmit, NotifyReceive, Goto, receive, CauseInv
<1>7. CASE HasInput
  BY <1>7, CauseGoto DEF HasInput, Goto, receive, CauseInv
<1>8. CASE PopReceive
  <2>1. CASE revoked
    BY <1>8, <2>1, CauseFail DEF PopReceive, CauseInv
  <2>2. CASE ~revoked
    BY <1>8, <2>2, CauseGoto DEF PopReceive, Goto, CauseInv
  <2> QED
    BY <2>1, <2>2
<1>9. CASE ReadInput
  <2>1. CASE Fail("readRx")
    <3>1. /\ input' = input /\ UNCHANGED stopVars
          /\ (input = 0 /\ UNCHANGED fault) \/ fault' = TRUE
      BY <1>9, <2>1 DEF ReadInput, Fail, Goto
    <3>2. pc = "readRx"
      BY <2>1 DEF Fail, Goto
    <3> QED
      BY Zenon, <2>1, <3>1, <3>2, CauseFail DEF CauseInv
  <2>2. CASE (\E n \in 1..input : input' = input - n) /\ Goto("readRx", "completeRx")
             /\ UNCHANGED <<stopVars, result, fault>>
    <3>1. input' \in Nat
      BY <2>2 DEF CauseInv
    <3> QED
      BY <2>2, <3>1, CauseGoto DEF Goto
  <2> QED
    BY <1>9, <2>1, <2>2 DEF ReadInput
<1>10. CASE CompleteReceive
  <2>1. CASE revoked
    BY <1>10, <2>1, CauseFail DEF CompleteReceive, CauseInv
  <2>2. CASE ~revoked
    BY <1>10, <2>2, CauseGoto DEF CompleteReceive, Goto, CauseInv
  <2> QED
    BY <2>1, <2>2
<1>11. CASE Drain
  BY <1>11 DEF Drain, Goto, CauseInv, FailureHasCause, stopVars, receive
<1> QED
  BY <1>1, <1>2, <1>3, <1>4, <1>5, <1>6, <1>7, <1>8, <1>9, <1>10, <1>11 DEF Run

\* run() of the console, memory and rng devices fails only after stop() has
\* begun or because something outside the device was at fault, whatever comes
\* between the question has_input() and the read that relies on its answer.
THEOREM FailuresHaveCauses == Spec => []FailureHasCause
<1>1. Init => CauseInv
  <2> SUFFICES ASSUME Init PROVE CauseInv
    OBVIOUS
  <2>1. /\ down = FALSE /\ closed = FALSE /\ revoked = FALSE /\ fault = FALSE
        /\ input = 0 /\ stopping = "no" /\ pc = "subscribe" /\ result = "none"
    BY DEF Init
  <2> QED
    BY Zenon, <2>1 DEF CauseInv, FailureHasCause
<1>2. CauseInv /\ [Next]_vars => CauseInv'
  <2> SUFFICES ASSUME CauseInv, [Next]_vars PROVE CauseInv'
    OBVIOUS
  <2>1. CASE UNCHANGED vars
    BY <2>1 DEF vars, stopVars, receive, CauseInv, FailureHasCause
  <2> QED
    BY <2>1, CauseOutside, CauseRun DEF Next
<1>3. CauseInv => FailureHasCause
  BY DEF CauseInv
<1> QED
  BY <1>1, <1>2, <1>3, PTL DEF Spec

-----------------------------------------------------------------------------
(* Types.  The chains of the receive queue are bounded because each is     *)
(* posted, held by run() or filled, and never two of these at once; TypeOK *)
(* leaves out the one that is held, and is not inductive.                  *)

RequestType ==
  /\ posted \in Seq(Requests)
  /\ state \in [Requests -> {"free", "posted", "popped", "read", "applied",
                             "answered", "lost"}]

ReceiveType ==
  /\ buffers \in Nat /\ filled \in Nat /\ input \in 0..MaxInput
  /\ buffers + filled + Held <= Buffers

FlagType ==
  /\ kicks \in BOOLEAN /\ down \in BOOLEAN /\ closed \in BOOLEAN
  /\ revoked \in BOOLEAN /\ fault \in BOOLEAN /\ permit \in BOOLEAN

ControlType ==
  /\ stopping \in {"no", "down", "closed", "revoked", "stopped"}
  /\ waiter \in {"none", "created", "waiting", "one", "all"}
  /\ pc \in {"subscribe", "check", "await", "recheck", "transmit", "read", "apply",
             "complete", "notify", "receive", "popRx", "readRx", "completeRx",
             "notifyRx", "drain", "returned"}
  /\ result \in {"none", "ok", "err"}

\* A chain is appended when it is published and taken off when it is popped.
LEMMA RequestStep == ASSUME RequestType, [Next]_vars PROVE RequestType'
<1> USE DEF RequestType
<1>1. CASE \E r \in Requests : Post(r) \/ Collect(r)
  <2>1. ASSUME NEW r \in Requests, Post(r) PROVE RequestType'
    BY <2>1 DEF Post, Move
  <2>2. ASSUME NEW r \in Requests, Collect(r) PROVE RequestType'
    BY <2>2 DEF Collect, Move
  <2> QED
    BY Zenon, <1>1, <2>1, <2>2
<1>2. CASE PopTransmit
  <2>1. CASE posted # <<>> /\ posted' = Tail(posted) /\ Move(Head(posted), "popped")
    BY <2>1 DEF Move
  <2> QED
    BY <1>2, <2>1 DEF PopTransmit
<1>3. CASE ReadChain \/ Apply \/ CompleteTransmit
  BY <1>3 DEF ReadChain, Apply, CompleteTransmit, Move
<1>4. CASE UNCHANGED <<posted, state>>
  BY <1>4
<1> QED
  BY <1>1, <1>2, <1>3, <1>4
  DEF Next, Run, PostBuffer, CollectBuffer, Input, Kick, StopDown, StopClose, StopRevoke,
      StopNotify, Subscribe, Check, Await, Recheck, NotifyTransmit, HasInput, PopReceive,
      ReadInput, CompleteReceive, NotifyReceive, Drain, vars

\* PostBuffer counts the chain that run() holds; the pop turns a posted chain
\* into that one, and its completion into a filled one.
LEMMA ReceiveStep == ASSUME ReceiveType, [Next]_vars PROVE ReceiveType'
<1> USE SerialAssumption DEF ReceiveType
<1>1. CASE PostBuffer \/ CollectBuffer \/ Input
  BY <1>1 DEF PostBuffer, CollectBuffer, Input, Held
<1>2. CASE StopClose
  BY <1>2 DEF StopClose, Held
<1>3. CASE PopReceive
  BY <1>3 DEF PopReceive, Held, Fail, Goto
<1>4. CASE ReadInput
  <2>1. input' \in 0..MaxInput /\ UNCHANGED <<buffers, filled>>
    BY <1>4 DEF ReadInput
  <2>2. pc = "readRx"
    BY <1>4 DEF ReadInput, Fail, Goto
  <2> QED
    BY <2>1, <2>2 DEF Held
<1>5. CASE CompleteReceive
  BY <1>5 DEF CompleteReceive, Held, Fail, Goto
<1>6. CASE UNCHANGED receive /\ Held' <= Held
  <2>1. buffers' = buffers /\ filled' = filled /\ input' = input
    BY <1>6 DEF receive
  <2>2. buffers' + filled' + Held' <= Buffers
    BY <1>6, <2>1 DEF Held
  <2> QED
    BY <2>1, <2>2
<1>7. ASSUME \/ \E r \in Requests : Post(r) \/ Collect(r)
             \/ Kick \/ StopDown \/ StopRevoke \/ StopNotify \/ UNCHANGED vars
      PROVE  UNCHANGED receive /\ Held' <= Held
  BY <1>7 DEF Post, Collect, Kick, StopDown, StopRevoke, StopNotify, vars, Held
<1>8. ASSUME \/ Subscribe \/ Check \/ Await \/ Recheck
             \/ PopTransmit \/ ReadChain \/ Apply \/ CompleteTransmit \/ NotifyTransmit
             \/ HasInput \/ NotifyReceive \/ Drain
      PROVE  UNCHANGED receive /\ Held' <= Held
  BY <1>8 DEF Subscribe, Check, Await, Recheck, PopTransmit, ReadChain, Apply,
              CompleteTransmit, NotifyTransmit, HasInput, NotifyReceive, Drain, Fail, Goto,
              Held
<1> QED
  BY <1>1, <1>2, <1>3, <1>4, <1>5, <1>6, <1>7, <1>8 DEF Next, Run

\* The flags are set and read, and the permit of Notify with them.
LEMMA FlagStep == ASSUME FlagType, [Next]_vars PROVE FlagType'
<1> USE DEF FlagType
<1>1. CASE \/ \E r \in Requests : Post(r) \/ Collect(r)
           \/ PostBuffer \/ CollectBuffer \/ Input \/ UNCHANGED vars
  BY Zenon, <1>1 DEF Post, Collect, PostBuffer, CollectBuffer, Input, vars, stopVars, wake
<1>2. CASE Kick \/ StopDown \/ StopClose \/ StopRevoke \/ StopNotify
  BY Zenon, <1>2 DEF Kick, StopDown, StopClose, StopRevoke, StopNotify, stopVars, wake,
              NotifyOne, NotifyAll
<1>3. CASE Subscribe \/ Check \/ Await
  BY Zenon, <1>3 DEF Subscribe, Check, Await, stopVars, wake, Create, Discard, Enlist, Complete
<1>4. CASE \/ Recheck \/ PopTransmit \/ ReadChain \/ Apply \/ CompleteTransmit
           \/ NotifyTransmit \/ HasInput \/ PopReceive \/ ReadInput \/ CompleteReceive
           \/ NotifyReceive \/ Drain
  <2>1. UNCHANGED <<kicks, stopVars, wake>>
    BY <1>4 DEF Recheck, PopTransmit, ReadChain, Apply, CompleteTransmit, NotifyTransmit,
                HasInput, PopReceive, ReadInput, CompleteReceive, NotifyReceive, Drain
  <2>2. fault' \in BOOLEAN
    BY Zenon, <1>4 DEF Recheck, PopTransmit, ReadChain, Apply, CompleteTransmit, NotifyTransmit,
                HasInput, PopReceive, ReadInput, CompleteReceive, NotifyReceive, Drain
  <2> QED
    BY <2>1, <2>2 DEF stopVars, wake
<1> QED
  BY <1>1, <1>2, <1>3, <1>4 DEF Next, Run

\* run(), stop() and the future are at one of their places.
LEMMA ControlStep == ASSUME ControlType, [Next]_vars PROVE ControlType'
<1> USE DEF ControlType
<1>1. CASE \/ \E r \in Requests : Post(r) \/ Collect(r)
           \/ PostBuffer \/ CollectBuffer \/ Input \/ UNCHANGED vars
  BY <1>1 DEF Post, Collect, PostBuffer, CollectBuffer, Input, vars, stopVars, wake
<1>2. CASE Kick \/ StopDown \/ StopClose \/ StopRevoke \/ StopNotify
  BY <1>2 DEF Kick, StopDown, StopClose, StopRevoke, StopNotify, stopVars, wake,
              NotifyOne, NotifyAll
<1>3. CASE Subscribe \/ Check \/ Await
  BY <1>3 DEF Subscribe, Check, Await, stopVars, wake, Create, Discard, Enlist, Complete, Goto
<1>4. CASE \/ Recheck \/ PopTransmit \/ ReadChain \/ Apply \/ CompleteTransmit
           \/ NotifyTransmit \/ HasInput \/ PopReceive \/ ReadInput \/ CompleteReceive
           \/ NotifyReceive \/ Drain
  <2>1. UNCHANGED <<stopping, waiter>>
    BY <1>4 DEF Recheck, PopTransmit, ReadChain, Apply, CompleteTransmit, NotifyTransmit,
                HasInput, PopReceive, ReadInput, CompleteReceive, NotifyReceive, Drain,
                stopVars, wake
  <2>2. pc' \in {"transmit", "read", "apply", "complete", "notify", "receive", "popRx",
                 "subscribe", "readRx", "completeRx", "notifyRx", "drain", "returned"}
    BY <1>4 DEF Recheck, PopTransmit, ReadChain, Apply, CompleteTransmit, NotifyTransmit,
                HasInput, PopReceive, ReadInput, CompleteReceive, NotifyReceive, Drain,
                Goto, Fail
  <2>3. result' \in {result, "ok", "err"}
    BY <1>4 DEF Recheck, PopTransmit, ReadChain, Apply, CompleteTransmit, NotifyTransmit,
                HasInput, PopReceive, ReadInput, CompleteReceive, NotifyReceive, Drain,
                Goto, Fail
  <2> QED
    BY <2>1, <2>2, <2>3
<1> QED
  BY <1>1, <1>2, <1>3, <1>4 DEF Next, Run

\* The type theorem: whatever the driver, the host and stop() do, run() never
\* makes more receive chains of those the driver has, answers only chains it
\* popped, and is at one of its places.
THEOREM TypeCorrect == Spec => []TypeOK
<1> DEFINE Types == RequestType /\ ReceiveType /\ FlagType /\ ControlType
<1>1. Init => Types
  <2> SUFFICES ASSUME Init PROVE Types
    OBVIOUS
  <2>1. RequestType /\ ControlType
    BY DEF Init, RequestType, ControlType, NotifyInit
  <2>2. ReceiveType
    BY SerialAssumption DEF Init, ReceiveType, Held
  <2>3. FlagType
    BY Zenon DEF Init, FlagType, NotifyInit
  <2> QED
    BY <2>1, <2>2, <2>3
<1>2. Types /\ [Next]_vars => Types'
  BY RequestStep, ReceiveStep, FlagStep, ControlStep
<1>3. Types => TypeOK
  <2> SUFFICES ASSUME Types PROVE TypeOK
    OBVIOUS
  <2>1. {buffers, filled} \subseteq 0..Buffers /\ buffers + filled <= Buffers
    BY SerialAssumption DEF ReceiveType, Held
  <2>2. {kicks, down, closed, revoked, fault} \subseteq BOOLEAN /\ permit \in BOOLEAN
    BY DEF FlagType
  <2> QED
    BY <2>1, <2>2 DEF TypeOK, NotifyType, RequestType, ReceiveType, ControlType
<1> QED
  <2> HIDE DEF Types
  <2> QED
    BY <1>1, <1>2, <1>3, PTL DEF Spec
=============================================================================
