---------------------- MODULE TwitterAuthorizationProofs ----------------------
(***************************************************************************)
(* Proofs about TwitterAuthorization, for any number of attempts.          *)
(***************************************************************************)
EXTENDS TwitterAuthorization, TLAPS

\* Thread t has read attempt i's completion block and is about to call it.
Calling(t, i) ==
  /\ finishing[t] # None /\ finishing[t].of = i
  /\ finishing[t].at = "call" /\ finishing[t].calls

\* Nothing is left of an attempt that has not begun.
FreshInv ==
  \A i \in Attempts : stage[i] = "none" =>
    /\ ~completion[i] /\ ~Finishing(i) /\ current # i
    /\ session[i] = "none" /\ calls[i] = 0

\* An attempt is finished by the main thread or by its own.
OwnInv == \A t \in Attempts : finishing[t] # None => finishing[t].of = t

\* The block is cleared before the global is.
ClearedInv ==
  \A t \in Threads :
    finishing[t] # None /\ finishing[t].at = "unset" => ~completion[finishing[t].of]

\* Who answers an attempt; unlike Answerable it says that the Twitter app, opened
\* or not yet, needs the global.
Owed(i) ==
  \/ Finishing(i) \/ i \in displaced
  \/ stage[i] \in {"token", "starting", "page", "access"}
  \/ stage[i] \in {"opening", "app"} /\ current = i

OwedInv == \A i \in Attempts : completion[i] => Owed(i)

\* The attempt that waits for the current one to be cancelled.
NextInv ==
  next # None => stage[next] = "none" /\ (Idle(Main) => current = None)

\* The block is called by whoever read it, and at most two threads did.
CountInv ==
  \A i \in Attempts :
    /\ completion[i] => calls[i] = 0
    /\ calls[i] = 2 => ~Calling(Main, i) /\ ~Calling(i, i)
    /\ calls[i] = 1 => ~(Calling(Main, i) /\ Calling(i, i))

\* One thread finishes an attempt that is not raced.
OnceInv ==
  \A i \in Attempts : i \notin raced =>
    /\ \A t, u \in Threads :
         /\ finishing[t] # None /\ finishing[t].of = i
         /\ finishing[u] # None /\ finishing[u].of = i
         => t = u
    /\ \A t \in Threads : Calling(t, i) => completion[i]
    /\ calls[i] <= 1

\* A single attempt.
Solo == \A i \in Attempts : i > 1 => stage[i] = "none" /\ next # i

SoloInv ==
  Solo =>
    /\ next = None /\ ~crashed /\ displaced = {} /\ raced = {}
    /\ Finishing(1) \/ session[1] = "invalid" => stage[1] = "done"

IInv ==
  /\ TypeOK /\ FreshInv /\ OwnInv /\ ClearedInv /\ OwedInv /\ NextInv
  /\ CountInv /\ OnceInv /\ SoloInv

\* Starting to finish an attempt: the types of what changes, and what the thread
\* does from now on.
LEMMA StartFinishChanges ==
  ASSUME TypeOK, NEW t \in Threads, NEW i \in Attempts, Idle(t), StartFinish(t, i)
  PROVE  /\ finishing' \in [Threads -> Finish \cup {None}]
         /\ raced' \in SUBSET Attempts
         /\ \A u \in Threads : u # t => finishing'[u] = finishing[u]
         /\ finishing'[t] # None /\ finishing'[t].of = i /\ finishing'[t].at = "read"
         /\ \A j \in Attempts : Finishing(j)' <=> Finishing(j) \/ j = i
  <1> DEFINE begun == [of |-> i, at |-> "read", calls |-> FALSE]
  <1>1. begun \in Finish
    BY DEF Finish
  <1>2. begun # None
    BY <1>1, NoneAssumption
  <1>3. finishing' \in [Threads -> Finish \cup {None}] /\ raced' \in SUBSET Attempts
    BY <1>1 DEF TypeOK, StartFinish
  <1>4. finishing'[t] = begun /\ \A u \in Threads : u # t => finishing'[u] = finishing[u]
    BY DEF TypeOK, StartFinish
  <1>5. finishing'[t] # None /\ finishing'[t].of = i /\ finishing'[t].at = "read"
    BY <1>2, <1>4
  <1>6. \A j \in Attempts : Finishing(j)' <=> Finishing(j) \/ j = i
    BY <1>4, <1>5 DEF Finishing, Idle
  <1> QED  BY <1>3, <1>4, <1>5, <1>6

\* A step of finishWithCredentials before the last: the thread goes on with its
\* attempt.
LEMMA ReadChanges ==
  ASSUME TypeOK, NEW t \in Threads, ReadCompletion(t)
  PROVE  /\ finishing[t] # None /\ finishing[t].of \in Attempts
         /\ finishing[t].calls \in BOOLEAN
         /\ finishing'[t] # None /\ finishing'[t] \in Finish
         /\ finishing'[t].of = finishing[t].of /\ finishing'[t].at = "call"
         /\ finishing'[t].calls = completion[finishing[t].of]
         /\ \A u \in Threads : u # t => finishing'[u] = finishing[u]
         /\ \A j \in Attempts : Finishing(j)' <=> Finishing(j)
  <1>1. finishing[t] \in Finish /\ finishing[t] # None
    BY DEF TypeOK, ReadCompletion, Idle
  <1>2. /\ finishing[t].of \in Attempts /\ finishing[t].calls \in BOOLEAN
        /\ completion[finishing[t].of] \in BOOLEAN
    BY <1>1 DEF Finish, TypeOK
  <1>3. /\ finishing'[t] = [finishing[t] EXCEPT
                            !.at = "call", !.calls = completion[finishing[t].of]]
        /\ \A u \in Threads : u # t => finishing'[u] = finishing[u]
    BY DEF TypeOK, ReadCompletion
  <1>4. finishing'[t] = [of |-> finishing[t].of, at |-> "call",
                        calls |-> completion[finishing[t].of]]
    BY <1>1, <1>2, <1>3 DEF Finish
  <1>5. finishing'[t] \in Finish
    BY <1>2, <1>4 DEF Finish
  <1>6. finishing'[t] # None
    BY <1>5, NoneAssumption
  <1>7. /\ finishing'[t].of = finishing[t].of /\ finishing'[t].at = "call"
        /\ finishing'[t].calls = completion[finishing[t].of]
    BY <1>4
  <1>8. \A j \in Attempts : Finishing(j)' <=> Finishing(j)
    BY <1>1, <1>3, <1>6, <1>7 DEF Finishing
  <1> QED  BY <1>1, <1>2, <1>3, <1>5, <1>6, <1>7, <1>8

\* The call goes on in the same way, with what it had read.
LEMMA CallChanges ==
  ASSUME TypeOK, NEW t \in Threads, CallCompletion(t)
  PROVE  /\ finishing[t] # None /\ finishing[t].of \in Attempts
         /\ finishing[t].calls \in BOOLEAN
         /\ finishing'[t] # None /\ finishing'[t] \in Finish
         /\ finishing'[t].of = finishing[t].of /\ finishing'[t].at = "unset"
         /\ finishing'[t].calls = finishing[t].calls
         /\ \A u \in Threads : u # t => finishing'[u] = finishing[u]
         /\ \A j \in Attempts : Finishing(j)' <=> Finishing(j)
  <1>1. finishing[t] \in Finish /\ finishing[t] # None
    BY DEF TypeOK, CallCompletion, Idle
  <1>2. finishing[t].of \in Attempts /\ finishing[t].calls \in BOOLEAN
    BY <1>1 DEF Finish
  <1>3. /\ finishing'[t] = [finishing[t] EXCEPT !.at = "unset"]
        /\ \A u \in Threads : u # t => finishing'[u] = finishing[u]
    BY DEF TypeOK, CallCompletion
  <1>4. finishing'[t] = [of |-> finishing[t].of, at |-> "unset",
                        calls |-> finishing[t].calls]
    BY <1>1, <1>2, <1>3 DEF Finish
  <1>5. finishing'[t] \in Finish
    BY <1>2, <1>4 DEF Finish
  <1>6. finishing'[t] # None
    BY <1>5, NoneAssumption
  <1>7. /\ finishing'[t].of = finishing[t].of /\ finishing'[t].at = "unset"
        /\ finishing'[t].calls = finishing[t].calls
    BY <1>4
  <1>8. \A j \in Attempts : Finishing(j)' <=> Finishing(j)
    BY <1>1, <1>3, <1>6, <1>7 DEF Finishing
  <1> QED  BY <1>1, <1>2, <1>3, <1>5, <1>6, <1>7, <1>8

\* The threads of the attempts are threads, and none is the main one.
LEMMA AttemptsAreThreads ==
  /\ Main \in Threads /\ 1 \in Attempts
  /\ \A i \in Attempts : i \in Threads /\ i # Main /\ (i = 1 \/ i > 1)
  BY MaxAttemptsAssumption DEF Threads, Attempts, Main

\* Invalidating the session and reading the block keep the invariant.
LEMMA ReadCompletionPreserves ==
  ASSUME IInv, NEW t \in Threads, ReadCompletion(t)
  PROVE  IInv'
  <1>1. TypeOK'
    <2>1. finishing' \in [Threads -> Finish \cup {None}]
      BY ReadChanges DEF IInv, TypeOK, ReadCompletion
    <2>2. session' \in [Attempts -> {"none", "valid", "invalid"}]
      BY ReadChanges DEF IInv, TypeOK, ReadCompletion
    <2> QED  BY <2>1, <2>2 DEF IInv, TypeOK, ReadCompletion
  <1>2. FreshInv'
    BY DEF IInv, TypeOK, FreshInv, Finishing, ReadCompletion, Idle
  <1>3. OwnInv'
    BY DEF IInv, TypeOK, OwnInv, ReadCompletion, Idle, Threads
  <1>4. ClearedInv'
    BY DEF IInv, TypeOK, ClearedInv, ReadCompletion
  <1>5. OwedInv'
    BY ReadChanges DEF IInv, OwedInv, Owed, ReadCompletion
  <1>6. NextInv'
    BY ReadChanges DEF IInv, NextInv, Idle, Threads, ReadCompletion
  <1>7. CountInv'
    BY DEF IInv, TypeOK, CountInv, Calling, ReadCompletion, Threads
  <1>8. OnceInv'
    BY DEF IInv, TypeOK, OnceInv, Calling, ReadCompletion, Idle
  <1>9. SoloInv'
    BY DEF IInv, TypeOK, SoloInv, Solo, Finishing, ReadCompletion, Idle
  <1> QED  BY <1>1, <1>2, <1>3, <1>4, <1>5, <1>6, <1>7, <1>8, <1>9 DEF IInv

\* Calling and clearing the block keep it: the only step that counts a call.
LEMMA CallCompletionPreserves ==
  ASSUME IInv, NEW t \in Threads, CallCompletion(t)
  PROVE  IInv'
  <1>1. TypeOK'
    <2> DEFINE i == finishing[t].of
    <2>1. i \in Attempts /\ finishing[t].calls \in BOOLEAN
      BY CallChanges DEF IInv
    <2>2. finishing' \in [Threads -> Finish \cup {None}]
      BY CallChanges DEF IInv, TypeOK, CallCompletion
    <2>3. finishing[t].calls => calls[i] \in 0..1
      <3>1. t = Main \/ t = i
        BY <2>1 DEF IInv, OwnInv, Threads, CallCompletion, Idle
      <3>2. finishing[t].calls => Calling(t, i)
        BY DEF Calling, CallCompletion, Idle
      <3>3. calls[i] \in 0..2
        BY <2>1 DEF IInv, TypeOK
      <3> QED  BY <2>1, <3>1, <3>2, <3>3 DEF IInv, CountInv
    <2>4. calls' \in [Attempts -> 0..2] /\ completion' \in [Attempts -> BOOLEAN]
      BY <2>1, <2>3 DEF IInv, TypeOK, CallCompletion
    <2> QED  BY <2>2, <2>4 DEF IInv, TypeOK, CallCompletion, attempt
  <1>2. FreshInv'
    BY DEF IInv, FreshInv, Finishing, CallCompletion, Idle, attempt
  <1>3. OwnInv'
    BY DEF IInv, OwnInv, CallCompletion, Idle
  <1>4. ClearedInv'
    <2>1. /\ finishing[t].of \in Attempts /\ finishing'[t].of = finishing[t].of
          /\ \A u \in Threads : u # t => finishing'[u] = finishing[u]
      BY CallChanges DEF IInv
    <2>2. /\ completion' = [completion EXCEPT ![finishing[t].of] = FALSE]
          /\ completion \in [Attempts -> BOOLEAN]
      BY DEF IInv, TypeOK, CallCompletion
    <2>3. \A u \in Threads : u # t /\ finishing[u] # None => finishing[u].of \in Attempts
      BY DEF IInv, TypeOK, Finish
    <2> QED  BY <2>1, <2>2, <2>3 DEF IInv, ClearedInv
  <1>5. OwedInv'
    BY DEF IInv, TypeOK, OwedInv, Owed, Finishing, CallCompletion, attempt
  <1>6. NextInv'
    BY CallChanges DEF IInv, NextInv, Idle, Threads, CallCompletion, attempt
  <1>7. CountInv'
    BY DEF IInv, TypeOK, CountInv, Calling, OwnInv, CallCompletion, Idle, Threads
  <1>8. OnceInv'
    <2> DEFINE i == finishing[t].of
    <2>1. /\ i \in Attempts /\ finishing'[t].of = i /\ finishing'[t].at = "unset"
          /\ finishing'[t] # None /\ finishing[t] # None
          /\ finishing[t].at = "call" /\ finishing[t].calls \in BOOLEAN
          /\ \A u \in Threads : u # t => finishing'[u] = finishing[u]
      BY CallChanges DEF IInv, CallCompletion
    <2>2. SUFFICES ASSUME NEW j \in Attempts, j \notin raced
          PROVE  /\ \A r, u \in Threads :
                      /\ finishing'[r] # None /\ finishing'[r].of = j
                      /\ finishing'[u] # None /\ finishing'[u].of = j
                      => r = u
                 /\ \A u \in Threads : Calling(u, j)' => completion'[j]
                 /\ calls'[j] <= 1
      BY DEF OnceInv, CallCompletion
    <2>3. \A r, u \in Threads :
             /\ finishing'[r] # None /\ finishing'[r].of = j
             /\ finishing'[u] # None /\ finishing'[u].of = j
             => r = u
      BY <2>1, <2>2 DEF IInv, OnceInv
    <2>4. ASSUME NEW u \in Threads, Calling(u, j)'
          PROVE  completion'[j]
      <3>1. u # t /\ Calling(u, j)
        BY <2>1, <2>4 DEF Calling
      <3>2. completion[j] /\ j # i
        BY <2>1, <2>2, <3>1 DEF IInv, OnceInv, Calling
      <3> QED  BY <3>2 DEF IInv, TypeOK, CallCompletion
    <2>5. calls'[j] <= 1
      <3>1. calls[j] <= 1 /\ calls[j] \in 0..2
        BY <2>2 DEF IInv, OnceInv, TypeOK
      <3>2. CASE j = i /\ finishing[t].calls
        <4>1. calls[j] = 0
          BY <2>1, <2>2, <3>2 DEF IInv, OnceInv, CountInv, Calling
        <4> QED  BY <2>1, <3>2, <4>1 DEF IInv, TypeOK, CallCompletion
      <3>3. CASE ~(j = i /\ finishing[t].calls)
        BY <2>1, <3>1, <3>3 DEF IInv, TypeOK, CallCompletion
      <3> QED  BY <3>2, <3>3
    <2> QED  BY <2>3, <2>4, <2>5
  <1>9. SoloInv'
    BY DEF IInv, SoloInv, Solo, Finishing, CallCompletion, Idle, attempt
  <1> QED  BY <1>1, <1>2, <1>3, <1>4, <1>5, <1>6, <1>7, <1>8, <1>9 DEF IInv

\* Clearing the global keeps it, whichever attempt is displaced.
LEMMA UnsetCurrentPreserves ==
  ASSUME IInv, NEW t \in Threads, UnsetCurrent(t)
  PROVE  IInv'
  <1>1. TypeOK'
    BY NoneAssumption DEF IInv, TypeOK, UnsetCurrent, Idle, attempt
  <1>2. FreshInv'
    BY NoneAssumption DEF IInv, FreshInv, Finishing, UnsetCurrent, attempt
  <1>3. OwnInv'
    BY DEF IInv, OwnInv, UnsetCurrent
  <1>4. ClearedInv'
    BY DEF IInv, ClearedInv, UnsetCurrent
  <1>5. OwedInv'
    BY DEF IInv, OwedInv, Owed, Finishing, ClearedInv, UnsetCurrent, Idle, attempt
  <1>6. NextInv'
    BY DEF IInv, NextInv, UnsetCurrent, attempt
  <1>7. CountInv'
    BY DEF IInv, CountInv, Calling, UnsetCurrent
  <1>8. OnceInv'
    BY DEF IInv, OnceInv, Calling, UnsetCurrent
  <1>9. SoloInv'
    BY AttemptsAreThreads, NoneAssumption DEF IInv, TypeOK, Finish, FreshInv, SoloInv,
       Solo, Finishing, UnsetCurrent, Idle, attempt
  <1> QED  BY <1>1, <1>2, <1>3, <1>4, <1>5, <1>6, <1>7, <1>8, <1>9 DEF IInv

\* A tap keeps it: the attempt begins, or the current one is cancelled first.
LEMMA AuthorizePreserves ==
  ASSUME IInv, NEW i \in Attempts, Authorize(i)
  PROVE  IInv'
  <1>0. Main \in Threads /\ Idle(Main)  BY DEF Threads, Authorize, MainIsFree
  <1>1. TypeOK'
    <2>1. CASE current = None
      BY <2>1 DEF IInv, TypeOK, Stages, Authorize, Begin
    <2>2. CASE current # None
      <3>1. current \in Attempts /\ StartFinish(Main, current)
        BY <2>2 DEF IInv, TypeOK, Authorize
      <3>2. finishing' \in [Threads -> Finish \cup {None}] /\ raced' \in SUBSET Attempts
        BY <1>0, <3>1, StartFinishChanges DEF IInv
      <3> QED  BY <2>2, <3>1, <3>2 DEF IInv, TypeOK, Authorize
    <2> QED  BY <2>1, <2>2
  <1>2. FreshInv'
    BY DEF IInv, TypeOK, FreshInv, Finishing, Authorize, Begin, StartFinish
  <1>3. OwnInv'
    <2>1. CASE current = None
      BY <2>1, NoneAssumption, AttemptsAreThreads DEF IInv, TypeOK, OwnInv, Authorize, Begin
    <2>2. CASE current # None
      BY <2>2, <1>0, StartFinishChanges, AttemptsAreThreads DEF IInv, TypeOK, OwnInv,
         Authorize
    <2> QED  BY <2>1, <2>2
  <1>4. ClearedInv'
    <2>1. CASE current = None
      BY <2>1, MaxAttemptsAssumption, NoneAssumption DEF IInv, TypeOK, Finish, FreshInv,
         ClearedInv, NextInv, NextInv, FreshInv, Finishing, Authorize, Begin, Attempts
    <2>2. CASE current # None
      BY <2>2, <1>0, StartFinishChanges DEF IInv, TypeOK, Finish, FreshInv, ClearedInv,
         NextInv, Authorize
    <2> QED  BY <2>1, <2>2
  <1>5. OwedInv'
    <2>1. CASE current = None
      BY <2>1, NoneAssumption DEF IInv, TypeOK, Owed, OwedInv, FreshInv, NextInv,
         Finishing, Authorize, Begin
    <2>2. CASE current # None
      BY <2>2, <1>0, StartFinishChanges DEF IInv, TypeOK, OwedInv, Owed, Authorize
    <2> QED  BY <2>1, <2>2
  <1>6. NextInv'
    <2>1. CASE current = None
      BY <2>1, NoneAssumption DEF IInv, NextInv, Authorize, MainIsFree
    <2>2. CASE current # None
      <3>1. /\ current \in Attempts /\ StartFinish(Main, current)
            /\ next' = i /\ UNCHANGED stage
        BY <2>2 DEF IInv, TypeOK, Authorize
      <3>2. Main \in Threads /\ Idle(Main)
        BY DEF Threads, Authorize, MainIsFree
      <3>3. ~Idle(Main)'
        BY <3>1, <3>2, StartFinishChanges DEF IInv, Idle
      <3>4. stage[i] = "none"
        BY DEF Authorize, Attempts
      <3> QED  BY <3>1, <3>3, <3>4 DEF NextInv
    <2> QED  BY <2>1, <2>2
  <1>7. CountInv'
    <2>1. CASE current = None
      <3>1. stage[i] = "none" /\ Begin(i) /\ UNCHANGED <<finishing, calls>>
        BY <2>1 DEF Authorize, Attempts
      <3>2. completion' = [completion EXCEPT ![i] = TRUE] /\ calls[i] = 0
        BY <3>1 DEF IInv, FreshInv, Begin
      <3> QED  BY <3>1, <3>2 DEF IInv, TypeOK, CountInv, Calling
    <2>2. CASE current # None
      BY <2>2, <1>0, StartFinishChanges, AttemptsAreThreads DEF IInv, TypeOK, CountInv,
         Calling, Authorize
    <2> QED  BY <2>1, <2>2
  <1>8. OnceInv'
    BY DEF IInv, TypeOK, OnceInv, Calling, Finishing, Authorize, Begin, StartFinish
  <1>9. SoloInv'
    <2>1. CASE current = None
      BY <2>1, NoneAssumption, AttemptsAreThreads DEF IInv, TypeOK, SoloInv, Solo,
         FreshInv, NextInv, Finishing, Authorize, Begin
    <2>2. CASE current # None
      BY <2>2, <1>0, StartFinishChanges, AttemptsAreThreads DEF IInv, TypeOK, SoloInv,
         Solo, FreshInv, Finishing, StartFinish, MainIsFree, Authorize
    <2> QED  BY <2>1, <2>2
  <1> QED  BY <1>1, <1>2, <1>3, <1>4, <1>5, <1>6, <1>7, <1>8, <1>9 DEF IInv

\* Beginning the attempt that waited keeps it.
LEMMA AuthorizeNextPreserves ==
  ASSUME IInv, AuthorizeNext
  PROVE  IInv'
  <1>1. TypeOK'
    BY DEF IInv, TypeOK, Stages, AuthorizeNext, Begin
  <1>2. FreshInv'
    BY DEF IInv, TypeOK, FreshInv, Finishing, AuthorizeNext, Begin
  <1>3. OwnInv'
    BY DEF IInv, OwnInv, AuthorizeNext, Begin
  <1>4. ClearedInv'
    BY DEF IInv, TypeOK, FreshInv, Finishing, ClearedInv, NextInv, AuthorizeNext, Begin
  <1>5. OwedInv'
    BY NoneAssumption DEF IInv, TypeOK, OwedInv, Owed, Finishing, NextInv,
       AuthorizeNext, Begin
  <1>6. NextInv'
    BY DEF IInv, NextInv, AuthorizeNext, Begin
  <1>7. CountInv'
    BY DEF IInv, CountInv, Calling, FreshInv, NextInv, AuthorizeNext, Begin
  <1>8. OnceInv'
    BY DEF IInv, OnceInv, Calling, AuthorizeNext, Begin
  <1>9. SoloInv'
    BY DEF IInv, TypeOK, SoloInv, Solo, AuthorizeNext, Begin
  <1> QED  BY <1>1, <1>2, <1>3, <1>4, <1>5, <1>6, <1>7, <1>8, <1>9 DEF IInv

\* The answer of openURL keeps it.
LEMMA OpenURLCompletedPreserves ==
  ASSUME IInv, NEW i \in Attempts, NEW success \in BOOLEAN, OpenURLCompleted(i, success)
  PROVE  IInv'
  <1>1. TypeOK'
    BY DEF IInv, TypeOK, Stages, OpenURLCompleted
  <1>2. FreshInv'
    BY DEF IInv, TypeOK, FreshInv, Finishing, OpenURLCompleted
  <1>3. OwnInv'
    BY DEF IInv, OwnInv, OpenURLCompleted
  <1>4. ClearedInv'
    BY DEF IInv, ClearedInv, OpenURLCompleted
  <1>5. OwedInv'
    BY DEF IInv, TypeOK, OwedInv, Owed, Finishing, OpenURLCompleted
  <1>6. NextInv'
    BY DEF IInv, NextInv, OpenURLCompleted, MainIsFree
  <1>7. CountInv'
    BY DEF IInv, CountInv, Calling, OpenURLCompleted
  <1>8. OnceInv'
    BY DEF IInv, OnceInv, Calling, OpenURLCompleted
  <1>9. SoloInv'
    BY MaxAttemptsAssumption, NoneAssumption DEF IInv, TypeOK, SoloInv, Solo, Finishing,
       OpenURLCompleted, Attempts
  <1> QED  BY <1>1, <1>2, <1>3, <1>4, <1>5, <1>6, <1>7, <1>8, <1>9 DEF IInv

\* The answer of the Twitter app keeps it.
LEMMA CallbackURLReceivedPreserves ==
  ASSUME IInv, NEW i \in Attempts, CallbackURLReceived(i)
  PROVE  IInv'
  <1>0. Main \in Threads /\ Idle(Main)  BY DEF Threads, CallbackURLReceived, MainIsFree
  <1>1. TypeOK'
    <2>1. CASE current = None
      BY <2>1 DEF IInv, TypeOK, Stages, CallbackURLReceived
    <2>2. CASE current # None
      BY <2>2, <1>0, StartFinishChanges DEF IInv, TypeOK, Stages, CallbackURLReceived
    <2> QED  BY <2>1, <2>2
  <1>2. FreshInv'
    BY DEF IInv, TypeOK, FreshInv, Finishing, CallbackURLReceived, StartFinish
  <1>3. OwnInv'
    <2>1. CASE current = None
      BY <2>1, NoneAssumption, AttemptsAreThreads DEF IInv, TypeOK, OwnInv,
         CallbackURLReceived
    <2>2. CASE current # None
      BY <2>2, <1>0, StartFinishChanges, AttemptsAreThreads DEF IInv, TypeOK, OwnInv,
         CallbackURLReceived
    <2> QED  BY <2>1, <2>2
  <1>4. ClearedInv'
    <2>1. CASE current = None
      BY <2>1 DEF IInv, TypeOK, Finish, FreshInv, ClearedInv, NextInv, CallbackURLReceived
    <2>2. CASE current # None
      BY <2>2, <1>0, StartFinishChanges DEF IInv, TypeOK, Finish, FreshInv, ClearedInv,
         NextInv, CallbackURLReceived
    <2> QED  BY <2>1, <2>2
  <1>5. OwedInv'
    <2>1. CASE current = None
      BY <2>1, NoneAssumption DEF IInv, TypeOK, OwedInv, Owed, Finishing,
         CallbackURLReceived
    <2>2. CASE current # None
      <3>1. /\ StartFinish(Main, current) /\ current \in Attempts
            /\ UNCHANGED <<current, completion, displaced>>
            /\ stage[i] = "app" /\ stage' = [stage EXCEPT ![i] = "done"]
        BY <2>2 DEF IInv, TypeOK, CallbackURLReceived
      <3>2. \A j \in Attempts : Finishing(j)' <=> Finishing(j) \/ j = current
        BY <1>0, <3>1, StartFinishChanges DEF IInv
      <3>3. \A j \in Attempts : completion[j] => Owed(j)'
        BY <3>1, <3>2 DEF IInv, TypeOK, OwedInv, Owed
      <3> QED  BY <3>1, <3>3 DEF OwedInv
    <2> QED  BY <2>1, <2>2
  <1>6. NextInv'
    BY DEF IInv, NextInv, CallbackURLReceived, MainIsFree
  <1>7. CountInv'
    <2>1. CASE current = None
      BY <2>1, NoneAssumption, AttemptsAreThreads DEF IInv, TypeOK, CountInv, Calling,
         CallbackURLReceived
    <2>2. CASE current # None
      BY <2>2, <1>0, StartFinishChanges, AttemptsAreThreads DEF IInv, TypeOK, CountInv,
         Calling, CallbackURLReceived
    <2> QED  BY <2>1, <2>2
  <1>8. OnceInv'
    BY DEF IInv, TypeOK, OnceInv, Calling, Finishing, CallbackURLReceived, StartFinish
  <1>9. SoloInv'
    <2>1. CASE current = None
      BY <2>1, NoneAssumption, AttemptsAreThreads DEF IInv, TypeOK, SoloInv, Solo,
         FreshInv, Finishing, CallbackURLReceived
    <2>2. CASE current # None
      BY <2>2, <1>0, StartFinishChanges, AttemptsAreThreads DEF IInv, TypeOK, SoloInv,
         Solo, FreshInv, Finishing, StartFinish, MainIsFree, CallbackURLReceived
    <2> QED  BY <2>1, <2>2
  <1> QED  BY <1>1, <1>2, <1>3, <1>4, <1>5, <1>6, <1>7, <1>8, <1>9 DEF IInv

\* The end of the web page keeps it.
LEMMA PageEndedPreserves ==
  ASSUME IInv, NEW i \in Attempts, NEW ok \in BOOLEAN, PageEnded(i, ok)
  PROVE  IInv'
  <1>0. Main \in Threads /\ Idle(Main)  BY DEF Threads, PageEnded, MainIsFree
  <1>1. TypeOK'
    <2>1. CASE ok
      BY <2>1 DEF IInv, TypeOK, Stages, Finishing, PageEnded
    <2>2. CASE ~ok
      BY <2>2, <1>0, StartFinishChanges DEF IInv, TypeOK, Stages, PageEnded
    <2> QED  BY <2>1, <2>2
  <1>2. FreshInv'
    BY DEF IInv, TypeOK, FreshInv, Finishing, PageEnded, StartFinish
  <1>3. OwnInv'
    <2>1. CASE ok
      BY <2>1, NoneAssumption, AttemptsAreThreads DEF IInv, TypeOK, OwnInv, PageEnded
    <2>2. CASE ~ok
      BY <2>2, <1>0, StartFinishChanges, AttemptsAreThreads DEF IInv, TypeOK, OwnInv,
         PageEnded
    <2> QED  BY <2>1, <2>2
  <1>4. ClearedInv'
    <2>1. CASE ok
      BY <2>1 DEF IInv, TypeOK, Finish, FreshInv, ClearedInv, NextInv, Finishing, PageEnded
    <2>2. CASE ~ok
      BY <2>2, <1>0, StartFinishChanges DEF IInv, TypeOK, Finish, FreshInv, ClearedInv,
         NextInv, PageEnded
    <2> QED  BY <2>1, <2>2
  <1>5. OwedInv'
    <2>1. CASE ok
      BY <2>1 DEF IInv, TypeOK, OwedInv, Owed, Finishing, PageEnded
    <2>2. CASE ~ok
      BY <2>2, <1>0, StartFinishChanges DEF IInv, TypeOK, OwedInv, Owed, PageEnded
    <2> QED  BY <2>1, <2>2
  <1>6. NextInv'
    BY DEF IInv, NextInv, PageEnded, MainIsFree
  <1>7. CountInv'
    <2>1. CASE ok
      BY <2>1, NoneAssumption, AttemptsAreThreads DEF IInv, TypeOK, CountInv, Calling,
         PageEnded
    <2>2. CASE ~ok
      BY <2>2, <1>0, StartFinishChanges, AttemptsAreThreads DEF IInv, TypeOK, CountInv,
         Calling, PageEnded
    <2> QED  BY <2>1, <2>2
  <1>8. OnceInv'
    BY DEF IInv, TypeOK, OnceInv, Calling, Finishing, PageEnded, StartFinish
  <1>9. SoloInv'
    <2>1. CASE ok
      BY <2>1, NoneAssumption, AttemptsAreThreads, ZenonT(60) DEF IInv, TypeOK, SoloInv,
         Solo, FreshInv, Finishing, PageEnded
    <2>2. CASE ~ok
      BY <2>2, <1>0, StartFinishChanges, AttemptsAreThreads DEF IInv, TypeOK, SoloInv,
         Solo, FreshInv, Finishing, StartFinish, MainIsFree, PageEnded
    <2> QED  BY <2>1, <2>2
  <1> QED  BY <1>1, <1>2, <1>3, <1>4, <1>5, <1>6, <1>7, <1>8, <1>9 DEF IInv

\* The answer to the first request keeps it.
LEMMA TokenAnsweredPreserves ==
  ASSUME IInv, NEW i \in Attempts, NEW ok \in BOOLEAN, TokenAnswered(i, ok)
  PROVE  IInv'
  <1>0. i \in Threads  BY DEF Threads
  <1>1. TypeOK'
    <2>1. CASE ok
      BY <2>1 DEF IInv, TypeOK, Stages, Finishing, TokenAnswered
    <2>2. CASE ~ok
      BY <2>2, StartFinishChanges, <1>0 DEF IInv, TypeOK, Stages, StartFinish, TokenAnswered
    <2> QED  BY <2>1, <2>2
  <1>2. FreshInv'
    <2>1. CASE ok
      BY <2>1 DEF IInv, TypeOK, FreshInv, Finishing, TokenAnswered
    <2>2. CASE ~ok
      BY <2>2, StartFinishChanges, <1>0 DEF IInv, TypeOK, FreshInv, StartFinish,
         TokenAnswered
    <2> QED  BY <2>1, <2>2
  <1>3. OwnInv'
    BY DEF IInv, TypeOK, OwnInv, TokenAnswered, StartFinish, Threads
  <1>4. ClearedInv'
    BY DEF IInv, TypeOK, ClearedInv, TokenAnswered, StartFinish
  <1>5. OwedInv'
    <2>1. CASE ok
      BY <2>1 DEF IInv, TypeOK, OwedInv, Owed, Finishing, TokenAnswered
    <2>2. CASE ~ok
      BY <2>2, StartFinishChanges, <1>0 DEF IInv, TypeOK, OwedInv, Owed, StartFinish,
         TokenAnswered
    <2> QED  BY <2>1, <2>2
  <1>6. NextInv'
    BY DEF IInv, TypeOK, NextInv, TokenAnswered, StartFinish, Idle, Threads
  <1>7. CountInv'
    <2>1. CASE ok
      BY <2>1 DEF IInv, TypeOK, CountInv, Calling, Threads, Main, Finishing, TokenAnswered
    <2>2. CASE ~ok
      BY <2>2, StartFinishChanges, <1>0 DEF IInv, TypeOK, CountInv, Calling, Threads,
         Main, StartFinish, TokenAnswered
    <2> QED  BY <2>1, <2>2
  <1>8. OnceInv'
    <2>1. CASE ok
      BY <2>1 DEF IInv, TypeOK, OnceInv, Calling, Finishing, Finishing, TokenAnswered
    <2>2. CASE ~ok
      BY <2>2, StartFinishChanges, <1>0 DEF IInv, TypeOK, OnceInv, Calling, Finishing,
         StartFinish, TokenAnswered
    <2> QED  BY <2>1, <2>2
  <1>9. SoloInv'
    <2>1. CASE ok
      BY <2>1, AttemptsAreThreads DEF IInv, TypeOK, SoloInv, Solo, Finishing, TokenAnswered
    <2>2. CASE ~ok
      BY <2>2, <1>0, AttemptsAreThreads, StartFinishChanges DEF IInv, TypeOK, SoloInv,
         Solo, StartFinish, Finishing, TokenAnswered
    <2> QED  BY <2>1, <2>2
  <1> QED  BY <1>1, <1>2, <1>3, <1>4, <1>5, <1>6, <1>7, <1>8, <1>9 DEF IInv

\* The web page keeps it.
LEMMA PageStartedPreserves ==
  ASSUME IInv, NEW i \in Attempts, PageStarted(i)
  PROVE  IInv'
  <1>1. TypeOK'
    BY DEF IInv, TypeOK, Stages, PageStarted
  <1>2. FreshInv'
    BY DEF IInv, FreshInv, Finishing, PageStarted
  <1>3. OwnInv'
    BY DEF IInv, OwnInv, PageStarted
  <1>4. ClearedInv'
    BY DEF IInv, ClearedInv, PageStarted
  <1>5. OwedInv'
    BY DEF IInv, OwedInv, Owed, Finishing, PageStarted
  <1>6. NextInv'
    BY DEF IInv, NextInv, PageStarted, Idle
  <1>7. CountInv'
    BY DEF IInv, CountInv, Calling, PageStarted
  <1>8. OnceInv'
    BY DEF IInv, OnceInv, Calling, PageStarted
  <1>9. SoloInv'
    BY DEF IInv, SoloInv, Solo, Finishing, PageStarted
  <1> QED  BY <1>1, <1>2, <1>3, <1>4, <1>5, <1>6, <1>7, <1>8, <1>9 DEF IInv

\* The answer to the last request keeps it.
LEMMA AccessAnsweredPreserves ==
  ASSUME IInv, NEW i \in Attempts, AccessAnswered(i)
  PROVE  IInv'
  <1>0. i \in Threads  BY DEF Threads
  <1>1. TypeOK'
    BY <1>0, StartFinishChanges DEF IInv, TypeOK, Stages, AccessAnswered
  <1>2. FreshInv'
    BY DEF IInv, FreshInv, Finishing, AccessAnswered, StartFinish
  <1>3. OwnInv'
    BY DEF IInv, OwnInv, AccessAnswered, StartFinish
  <1>4. ClearedInv'
    BY DEF IInv, ClearedInv, AccessAnswered, StartFinish
  <1>5. OwedInv'
    BY <1>0, StartFinishChanges DEF IInv, TypeOK, OwedInv, Owed, AccessAnswered
  <1>6. NextInv'
    BY DEF IInv, NextInv, AccessAnswered, StartFinish, Idle
  <1>7. CountInv'
    BY DEF IInv, CountInv, Calling, AccessAnswered, StartFinish
  <1>8. OnceInv'
    BY DEF IInv, OnceInv, Calling, Finishing, AccessAnswered, StartFinish
  <1>9. SoloInv'
    BY DEF IInv, TypeOK, SoloInv, Solo, AccessAnswered, StartFinish, Attempts
  <1> QED  BY <1>1, <1>2, <1>3, <1>4, <1>5, <1>6, <1>7, <1>8, <1>9 DEF IInv

\* The invariant holds before the first tap.
LEMMA InitInv == Init => IInv
  <1> SUFFICES ASSUME Init PROVE IInv  OBVIOUS
  <1> USE DEF Init
  <1>1. TypeOK
    <2>1. stage \in [Attempts -> Stages]  BY DEF Stages
    <2>2. session \in [Attempts -> {"none", "valid", "invalid"}]  OBVIOUS
    <2>3. /\ completion \in [Attempts -> BOOLEAN]
          /\ finishing \in [Threads -> Finish \cup {None}]
          /\ calls \in [Attempts -> 0..2]
      OBVIOUS
    <2>4. /\ current \in Attempts \cup {None} /\ next \in Attempts \cup {None}
          /\ crashed \in BOOLEAN
          /\ displaced \in SUBSET Attempts /\ raced \in SUBSET Attempts
      OBVIOUS
    <2> QED  BY <2>1, <2>2, <2>3, <2>4 DEF TypeOK
  <1>2. FreshInv  BY NoneAssumption DEF FreshInv, Finishing
  <1>3. OwnInv /\ ClearedInv  BY DEF OwnInv, ClearedInv, Threads
  <1>4. OwedInv  BY DEF OwedInv
  <1>5. NextInv  BY DEF NextInv
  <1>6. CountInv  BY DEF CountInv
  <1>7. OnceInv  BY DEF OnceInv, Calling
  <1>8. SoloInv  BY AttemptsAreThreads DEF SoloInv, Finishing
  <1> QED  BY <1>1, <1>2, <1>3, <1>4, <1>5, <1>6, <1>7, <1>8 DEF IInv

\* Every step keeps it.
LEMMA StepInv == IInv /\ [Next]_vars => IInv'
  <1> SUFFICES ASSUME IInv, [Next]_vars PROVE IInv'  OBVIOUS
  <1>1. CASE UNCHANGED vars
    BY <1>1 DEF vars, attempt, IInv, TypeOK, FreshInv, OwnInv, ClearedInv, OwedInv, Owed,
       NextInv, CountInv, OnceInv, SoloInv, Solo, Calling, Finishing, Idle
  <1>2. CASE \E t \in Threads : FinishStep(t)
    BY <1>2, ReadCompletionPreserves, CallCompletionPreserves, UnsetCurrentPreserves
       DEF FinishStep
  <1>3. CASE AuthorizeNext
    BY <1>3, AuthorizeNextPreserves
  <1>4. CASE \E i \in Attempts :
               Authorize(i) \/ CallbackURLReceived(i) \/ PageStarted(i) \/ AccessAnswered(i)
    BY <1>4, AuthorizePreserves, CallbackURLReceivedPreserves, PageStartedPreserves,
       AccessAnsweredPreserves
  <1>5. CASE \E i \in Attempts, ok \in BOOLEAN :
               OpenURLCompleted(i, ok) \/ PageEnded(i, ok) \/ TokenAnswered(i, ok)
    BY <1>5, OpenURLCompletedPreserves, PageEndedPreserves, TokenAnsweredPreserves
  <1> QED  BY <1>1, <1>2, <1>3, <1>4, <1>5 DEF Next

\* The inductive invariant of the attempts, the global and their two threads.
THEOREM Invariance == Spec => []IInv
  BY InitInv, StepInv, PTL DEF Spec

\* Every variable keeps its type; a block is called twice at most.
THEOREM TypeCorrect == Spec => []TypeOK
  <1>1. IInv => TypeOK  BY DEF IInv
  <1> QED  BY <1>1, Invariance, PTL

\* An attempt that owes an answer is never left without somebody to give it.
THEOREM NoneForgotten == Spec => []NoAttemptForgotten
  <1>1. IInv => NoAttemptForgotten
    BY DEF IInv, OwedInv, Owed, NoAttemptForgotten, Answerable
  <1> QED  BY <1>1, Invariance, PTL

\* Only an attempt that two threads were finishing at once is called twice.
THEOREM OnceUnlessRaced == Spec => []CalledOnce
  <1>1. IInv => CalledOnce
    BY DEF IInv, TypeOK, OnceInv, CalledOnce
  <1> QED  BY <1>1, Invariance, PTL

\* A first attempt is safe until there is a second tap.
THEOREM SingleIsSafe == Spec => []OneIsSafe
  <1>1. ASSUME IInv, Solo
        PROVE  ~crashed /\ displaced = {} /\ \A i \in Attempts : calls[i] <= 1
    BY <1>1 DEF IInv, SoloInv, OnceInv
  <1>2. IInv => OneIsSafe
    BY <1>1 DEF OneIsSafe, Solo
  <1> QED  BY <1>2, Invariance, PTL
===============================================================================
