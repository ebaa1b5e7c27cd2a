-------------------------- MODULE TwitterAuthorization --------------------------
(***************************************************************************)
(* FCTwitterAuthorization: one object per attempt to sign in with Twitter, *)
(* and a global that names the current one.  An attempt goes through the   *)
(* Twitter app if it can be opened, otherwise through two requests with a  *)
(* web page between them.                                                  *)
(*                                                                         *)
(* Taps, URLs, the web page and openURL's answer come on the main thread;  *)
(* the completions of the requests on the queue of the attempt's           *)
(* NSURLSession.  Both call finishWithCredentials, which no lock protects: *)
(* its reads and writes are steps of their own.                            *)
(***************************************************************************)
EXTENDS Integers

CONSTANTS
  MaxAttempts,   \* a bound on the taps
  None           \* NULL; a thread that is finishing nothing

ASSUME MaxAttemptsAssumption == MaxAttempts \in Nat \ {0}

Attempts == 1..MaxAttempts
Main == 0
Threads == {Main} \cup Attempts

\* A thread about to call, or that has called, the completion block it read.
Finish ==
  {f \in [of : Attempts, at : {"read", "call", "unset"}, calls : BOOLEAN] :
     f.at = "read" => ~f.calls}

ASSUME NoneAssumption == None \notin Attempts /\ None \notin Finish

VARIABLES
  current,      \* g_currentInstance
  stage,        \* how far each attempt is
  session,      \* its urlSession: none, valid or invalidated
  completion,   \* its completion block has not been cleared
  finishing,    \* what each thread is doing in finishWithCredentials
  next,         \* the attempt to begin once the main thread has cancelled another
  crashed,      \* a task was created in an invalidated session
  calls,        \* history: how often the completion block has been called
  displaced,    \* history: attempts whose place another's end has cleared
  raced         \* history: attempts finished by two threads at once

vars == <<current, stage, session, completion, finishing, next, crashed, calls, displaced,
          raced>>
attempt == <<stage, session, next, crashed>>

Stages == {"none", "opening", "app", "token", "starting", "page", "access", "done"}

TypeOK ==
  /\ current \in Attempts \cup {None}
  /\ stage \in [Attempts -> Stages]
  /\ session \in [Attempts -> {"none", "valid", "invalid"}]
  /\ completion \in [Attempts -> BOOLEAN]
  /\ finishing \in [Threads -> Finish \cup {None}]
  /\ next \in Attempts \cup {None}
  /\ crashed \in BOOLEAN
  /\ calls \in [Attempts -> 0..2]
  /\ displaced \in SUBSET Attempts /\ raced \in SUBSET Attempts

Init ==
  /\ current = None
  /\ stage = [i \in Attempts |-> "none"]
  /\ session = [i \in Attempts |-> "none"]
  /\ completion = [i \in Attempts |-> FALSE]
  /\ finishing = [t \in Threads |-> None]
  /\ next = None
  /\ crashed = FALSE
  /\ calls = [i \in Attempts |-> 0]
  /\ displaced = {} /\ raced = {}

------------------------------------------------------------------------------
(***************************************************************************)
(* finishWithCredentials.                                                  *)
(***************************************************************************)
Idle(t) == finishing[t] = None
Finishing(i) == \E t \in Threads : finishing[t] # None /\ finishing[t].of = i

StartFinish(t, i) ==
  /\ finishing' = [finishing EXCEPT ![t] = [of |-> i, at |-> "read", calls |-> FALSE]]
  /\ raced' = IF Finishing(i) THEN raced \cup {i} ELSE raced

\* invalidateAndCancel, then the read of the completion block.
ReadCompletion(t) ==
  /\ ~Idle(t) /\ finishing[t].at = "read"
  /\ LET i == finishing[t].of
     IN  /\ session' = [session EXCEPT ![i] = IF @ = "none" THEN @ ELSE "invalid"]
         /\ finishing' = [finishing EXCEPT ![t].at = "call", ![t].calls = completion[i]]
  /\ UNCHANGED <<current, stage, completion, next, crashed, calls, displaced, raced>>

\* Mutant: the completion block is kept.
CallAndKeep(t) ==
  /\ ~Idle(t) /\ finishing[t].at = "call"
  /\ LET i == finishing[t].of
     IN  calls' = [calls EXCEPT ![i] = IF finishing[t].calls THEN @ + 1 ELSE @]
  /\ finishing' = [finishing EXCEPT ![t].at = "unset"]
  /\ UNCHANGED <<current, completion, attempt, displaced, raced>>

\* Mutant: the block that was read and the one still stored are both called.
CallBoth(t) ==
  /\ ~Idle(t) /\ finishing[t].at = "call"
  /\ LET i == finishing[t].of
     IN  /\ calls' = [calls EXCEPT ![i] = IF finishing[t].calls THEN @ + 2 ELSE @]
         /\ completion' = [completion EXCEPT ![i] = FALSE]
  /\ finishing' = [finishing EXCEPT ![t].at = "unset"]
  /\ UNCHANGED <<current, attempt, displaced, raced>>

CallCompletion(t) ==
  /\ ~Idle(t) /\ finishing[t].at = "call"
  /\ LET i == finishing[t].of
     IN  /\ calls' = [calls EXCEPT ![i] = IF finishing[t].calls THEN @ + 1 ELSE @]
         /\ completion' = [completion EXCEPT ![i] = FALSE]
  /\ finishing' = [finishing EXCEPT ![t].at = "unset"]
  /\ UNCHANGED <<current, attempt, displaced, raced>>

\* The global is cleared, whichever attempt it names by now.
UnsetCurrent(t) ==
  /\ ~Idle(t) /\ finishing[t].at = "unset"
  /\ current' = None
  /\ displaced' = displaced \cup ({current} \ {None, finishing[t].of})
  /\ finishing' = [finishing EXCEPT ![t] = None]
  /\ UNCHANGED <<completion, attempt, calls, raced>>

------------------------------------------------------------------------------
(***************************************************************************)
(* The main thread.                                                        *)
(***************************************************************************)
MainIsFree == Idle(Main) /\ next = None /\ ~crashed

\* The new object becomes the current one; canOpenURL chooses its way.
Begin(i) ==
  /\ current' = i
  /\ completion' = [completion EXCEPT ![i] = TRUE]
  /\ \/ stage' = [stage EXCEPT ![i] = "opening"] /\ UNCHANGED session
     \/ /\ stage' = [stage EXCEPT ![i] = "token"]
        /\ session' = [session EXCEPT ![i] = "valid"]

\* Tapping the button; not under a web page.  A current attempt is cancelled first.
Authorize(i) ==
  /\ MainIsFree
  /\ \A j \in Attempts : stage[j] # "page" /\ (stage[j] = "none" <=> j >= i)
  /\ \/ /\ current = None
        /\ Begin(i)
        /\ UNCHANGED <<finishing, raced, next>>
     \/ /\ current # None
        /\ StartFinish(Main, current)
        /\ next' = i
        /\ UNCHANGED <<current, stage, session, completion>>
  /\ UNCHANGED <<crashed, calls, displaced>>

\* Cancelled: the rest of authorizeWithConsumerKey.
AuthorizeNext ==
  /\ Idle(Main) /\ next # None
  /\ Begin(next)
  /\ next' = None
  /\ UNCHANGED <<finishing, crashed, calls, displaced, raced>>

\* openURL answers for its attempt, also for one that has been cancelled.
OpenURLCompleted(i, success) ==
  /\ MainIsFree /\ stage[i] = "opening"
  /\ \/ /\ success
        /\ stage' = [stage EXCEPT ![i] = "app"]
        /\ UNCHANGED session
     \/ /\ ~success
        /\ stage' = [stage EXCEPT ![i] = "token"]
        /\ session' = [session EXCEPT ![i] = "valid"]
  /\ UNCHANGED <<current, completion, finishing, next, crashed, calls, displaced, raced>>

\* The Twitter app answers an attempt; the current one takes the answer.
CallbackURLReceived(i) ==
  /\ MainIsFree /\ stage[i] = "app"
  /\ stage' = [stage EXCEPT ![i] = "done"]
  /\ \/ current # None /\ StartFinish(Main, current)
     \/ current = None /\ UNCHANGED <<finishing, raced>>
  /\ UNCHANGED <<current, session, completion, next, crashed, calls, displaced>>

\* The web page ends.  Creating a task in an invalidated session raises.
PageEnded(i, ok) ==
  /\ MainIsFree /\ stage[i] = "page"
  /\ \/ /\ ok
        /\ stage' = [stage EXCEPT ![i] = "access"]
        /\ crashed' = (session[i] = "invalid")
        /\ UNCHANGED <<finishing, raced>>
     \/ /\ ~ok
        /\ stage' = [stage EXCEPT ![i] = "done"]
        /\ StartFinish(Main, i)
        /\ UNCHANGED crashed
  /\ UNCHANGED <<current, session, completion, next, calls, displaced>>

------------------------------------------------------------------------------
(***************************************************************************)
(* The queue of an attempt's NSURLSession.                                 *)
(***************************************************************************)
\* Mutant: a failed request just returns.
TokenAnsweredQuietly(i, ok) ==
  /\ ~crashed /\ Idle(i) /\ stage[i] = "token"
  /\ ok => session[i] = "valid"
  /\ stage' = [stage EXCEPT ![i] = IF ok THEN "starting" ELSE "done"]
  /\ UNCHANGED <<current, session, completion, finishing, next, crashed, calls, displaced,
                 raced>>

\* The request token, or an error: always one for a cancelled task.
TokenAnswered(i, ok) ==
  /\ ~crashed /\ Idle(i) /\ stage[i] = "token"
  /\ ok => session[i] = "valid"
  /\ \/ /\ ok
        /\ stage' = [stage EXCEPT ![i] = "starting"]
        /\ UNCHANGED <<finishing, raced>>
     \/ /\ ~ok
        /\ stage' = [stage EXCEPT ![i] = "done"]
        /\ StartFinish(i, i)
  /\ UNCHANGED <<current, session, completion, next, crashed, calls, displaced>>

\* Mutant: the session is invalidated once its first task is done.
PageStartedInvalidating(i) ==
  /\ ~crashed /\ stage[i] = "starting"
  /\ stage' = [stage EXCEPT ![i] = "page"]
  /\ session' = [session EXCEPT ![i] = "invalid"]
  /\ UNCHANGED <<current, completion, finishing, next, crashed, calls, displaced, raced>>

\* The same completion goes on to show the web page, cancelled or not by now.
PageStarted(i) ==
  /\ ~crashed /\ stage[i] = "starting"
  /\ stage' = [stage EXCEPT ![i] = "page"]
  /\ UNCHANGED <<current, session, completion, finishing, next, crashed, calls, displaced,
                 raced>>

\* The access token, or an error: either ends the attempt.
AccessAnswered(i) ==
  /\ ~crashed /\ Idle(i) /\ stage[i] = "access"
  /\ stage' = [stage EXCEPT ![i] = "done"]
  /\ StartFinish(i, i)
  /\ UNCHANGED <<current, session, completion, next, crashed, calls, displaced>>

------------------------------------------------------------------------------
FinishStep(t) ==
  ~crashed /\ (ReadCompletion(t) \/ CallCompletion(t) \/ UnsetCurrent(t))

Next ==
  \/ \E t \in Threads : FinishStep(t)
  \/ AuthorizeNext
  \/ \E i \in Attempts :
       \/ Authorize(i)
       \/ CallbackURLReceived(i)
       \/ PageStarted(i)
       \/ AccessAnswered(i)
       \/ \E ok \in BOOLEAN :
            OpenURLCompleted(i, ok) \/ PageEnded(i, ok) \/ TokenAnswered(i, ok)

Spec == Init /\ [][Next]_vars

\* Both threads run, requests are answered, and the web page is closed at last.
\* Nothing is assumed of the user in the Twitter app.
Fairness ==
  /\ \A t \in Threads : WF_vars(FinishStep(t))
  /\ WF_vars(AuthorizeNext)
  /\ \A i \in Attempts :
       /\ WF_vars(\E ok \in BOOLEAN : TokenAnswered(i, ok))
       /\ WF_vars(PageStarted(i))
       /\ WF_vars(\E ok \in BOOLEAN : PageEnded(i, ok))
       /\ WF_vars(AccessAnswered(i))
       /\ WF_vars(\E ok \in BOOLEAN : OpenURLCompleted(i, ok))

FairSpec == Spec /\ Fairness

------------------------------------------------------------------------------
(***************************************************************************)
(* Properties.                                                             *)
(***************************************************************************)

\* An attempt that owes an answer has somebody to give it: a request, a page, a
\* thread in finishWithCredentials, or the Twitter app while the global names
\* the attempt.  The one exception is an attempt whose place in the global the
\* end of an earlier one has cleared.
Answerable(i) ==
  \/ stage[i] \in {"opening", "token", "starting", "page", "access"}
  \/ Finishing(i)
  \/ stage[i] = "app" /\ current = i

NoAttemptForgotten ==
  \A i \in Attempts : completion[i] => Answerable(i) \/ i \in displaced

\* The completion block, which signs in or shows an alert, is called once, but
\* for the attempts two threads were finishing at the same time.
CalledOnce == \A i \in Attempts : calls[i] > 1 => i \in raced

\* A single attempt does not crash, keeps its place and is called at most once:
\* it takes a second tap to go wrong.
OneIsSafe ==
  (\A i \in Attempts : i > 1 => stage[i] = "none" /\ next # i)
    => ~crashed /\ displaced = {} /\ \A i \in Attempts : calls[i] <= 1

\* Every attempt is answered at last, unless it is with the Twitter app.
AttemptsEnd ==
  \A i \in Attempts :
    completion[i] ~> (~completion[i] \/ crashed \/ stage[i] = "app" \/ i \in displaced)
================================================================================
