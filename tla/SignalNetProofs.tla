--------------------------- MODULE SignalNetProofs ---------------------------
(***************************************************************************)
(* Proofs about two components that share nothing: Signals, for any        *)
(* threads, signal numbers and masks, and Net, for any processes, peers,   *)
(* ports and packets.                                                      *)
(***************************************************************************)
EXTENDS Signals, Net, FiniteSetTheorems, TLAPS

(* A signal number is a natural number below 32, and NONE is none. *)
LEMMA SignalIsNat == Signal \subseteq Nat /\ NONE \notin UserSignal
BY SignalsAssumption DEF Signal, Flag, UserSignal, SIGSEGV

(* A signal that is reached is pending; a signal that has a handler and is *)
(* reached is a user signal.                                               *)
LEMMA ReachedPending ==
  ASSUME TypeOK, NEW t \in Thread
  PROVE  /\ Reached(t) \subseteq signals
         /\ Handled(t) \subseteq signals \cap UserSignal
         /\ Cleared(t) \subseteq signals
BY DEF TypeOK, Reached, Deliverable, Handled, Cleared

(* The loop of check_pending_signals returns after the first user signal,  *)
(* so at most one handler is entered, and Min picks it.                    *)
LEMMA OneHandled ==
  ASSUME TypeOK, NEW t \in Thread, Handled(t) # {}
  PROVE  \E s \in UserSignal : Handled(t) = {s} /\ Min(Handled(t)) = s
<1>1. PICK s : s \in Handled(t)
  OBVIOUS
<1>2. Handled(t) \subseteq UserSignal /\ UserSignal \subseteq Nat
  BY ReachedPending, SignalIsNat, Zenon DEF UserSignal
<1>3. \A u \in Handled(t) : u = s
  <2> TAKE u \in Handled(t)
  <2>1. u \in Deliverable(t) \cap UserSignal /\ s \in Deliverable(t) \cap UserSignal
    BY <1>1, <1>2 DEF Handled, Reached
  <2>2. s <= u /\ u <= s
    BY <1>1, <2>1 DEF Handled, Reached
  <2>3. s \in Nat /\ u \in Nat
    BY <1>2, <2>1, Zenon
  <2> QED
    BY <2>2, <2>3
<1>4. Handled(t) = {s}
  BY <1>1, <1>3
<1>5. Min({s}) = s
  BY <1>1, <1>2 DEF Min
<1> QED
  BY <1>1, <1>2, <1>4, <1>5, Zenon

------------------------------------------------------------------------------
(* Type correctness. *)

LEMMA InitType == Init => TypeOK
BY SignalsAssumption DEF Init, TypeOK, DefaultAction, Action, Context

(* The pass over the pending signals keeps the types. *)
LEMMA PassType ==
  ASSUME TypeOK, NEW t \in Thread, check_pending_signals(t)
  PROVE  /\ signals' \in SUBSET Signal
         /\ signal_handling' \in [Thread -> UserSignal \cup {NONE}]
         /\ killed' \in [Thread -> BOOLEAN]
         /\ frozen' \in [Thread -> BOOLEAN]
         /\ DOMAIN trap_cx_backup' = Thread
         /\ \A u \in Thread :
              trap_cx_backup'[u] = NONE \/ trap_cx_backup'[u] \in Context
         /\ trap_cx' \in [Thread -> Context]
         /\ nested' \in [Thread -> BOOLEAN]
         /\ taken' \in [Signal -> Nat]
<1>1. signals' \in SUBSET Signal /\ taken' \in [Signal -> Nat]
  BY DEF check_pending_signals, TypeOK
<1>2. killed' \in [Thread -> BOOLEAN] /\ frozen' \in [Thread -> BOOLEAN]
  BY Zenon DEF check_pending_signals, call_kernel_signal_handler, TypeOK
<1>3. CASE Handled(t) = {}
  BY <1>1, <1>2, <1>3 DEF check_pending_signals, call_user_signal_handler, TypeOK
<1>4. CASE Handled(t) # {}
  <2>1. PICK s \in UserSignal : Min(Handled(t)) = s
    BY <1>4, OneHandled
  <2>2. /\ signal_handling' = [signal_handling EXCEPT ![t] = s]
        /\ trap_cx_backup' = [trap_cx_backup EXCEPT ![t] = trap_cx[t]]
        /\ trap_cx' = [trap_cx EXCEPT ![t] = Append(@, s)]
        /\ nested' = [nested EXCEPT ![t] = @ \/ LetIn(t, s)]
    BY <1>4, <2>1 DEF check_pending_signals, call_user_signal_handler
  <2>3. Append(trap_cx[t], s) \in Context
    BY DEF TypeOK, Context
  <2>4. trap_cx' \in [Thread -> Context]
    BY <2>2, <2>3 DEF TypeOK
  <2>5. /\ DOMAIN trap_cx_backup' = Thread
        /\ \A u \in Thread :
             trap_cx_backup'[u] = NONE \/ trap_cx_backup'[u] \in Context
    BY <2>2 DEF TypeOK
  <2>6. signal_handling' \in [Thread -> UserSignal \cup {NONE}]
    BY <2>2 DEF TypeOK
  <2>7. nested' \in [Thread -> BOOLEAN]
    BY <2>2, Zenon DEF TypeOK, LetIn
  <2> QED
    BY <1>1, <1>2, <2>4, <2>5, <2>6, <2>7
<1> QED
  BY <1>3, <1>4

LEMMA NextType == TypeOK /\ [Next]_vars => TypeOK'
<1> SUFFICES ASSUME TypeOK, [Next]_vars
             PROVE  TypeOK'
  OBVIOUS
<1>1. ASSUME NEW n \in KillArg, sys_kill(n)
      PROVE  TypeOK'
  <2>1. Flag(n) \in Signal
    BY DEF Signal
  <2> QED
    BY <1>1, <2>1 DEF sys_kill, Accept, TypeOK, thread_vars
<1>2. ASSUME NEW t \in Thread, SuspendingTrap(t) \/ OtherTrap(t)
      PROVE  TypeOK'
  BY <1>2 DEF SuspendingTrap, OtherTrap, Enter, TypeOK, thread_vars, hist_vars
<1>3. ASSUME NEW t \in Thread, NEW n \in KillArg, sys_kill_self(t, n)
      PROVE  TypeOK'
  <2>1. Flag(n) \in Signal
    BY DEF Signal
  <2> QED
    BY <1>3, <2>1 DEF sys_kill_self, Enter, Accept, TypeOK, thread_vars
<1>4. ASSUME NEW t \in Thread, Fault(t)
      PROVE  TypeOK'
  <2>1. SIGSEGV \in Signal
    BY DEF Signal
  <2> QED
    BY <1>4, <2>1 DEF Fault, Enter, Accept, TypeOK, thread_vars, hist_vars
<1>5. ASSUME NEW t \in Thread, NEW m \in ProcMask[t], sys_sigprocmask(t, m)
      PROVE  TypeOK'
  BY <1>5, SignalsAssumption, Zenon DEF sys_sigprocmask, Enter, TypeOK, hist_vars
<1>6. ASSUME NEW t \in Thread, NEW n \in ActionArg, NEW a \in ActionGiven[t],
             sys_sigaction(t, n, a)
      PROVE  TypeOK'
  <2>1. a \in Action
    BY SignalsAssumption, Zenon DEF Action
  <2> QED
    BY <1>6, <2>1, Zenon DEF sys_sigaction, Enter, TypeOK, hist_vars
<1>7. ASSUME NEW t \in Thread, sys_sigreturn(t)
      PROVE  TypeOK'
  BY <1>7, Zenon DEF sys_sigreturn, Enter, TypeOK, hist_vars
<1>8. ASSUME NEW t \in Thread, NEW u \in Thread, sys_thread_create(t, u)
      PROVE  TypeOK'
  BY <1>8 DEF sys_thread_create, TypeOK, thread_vars, hist_vars
<1>9. ASSUME NEW t \in Thread, HandleSignals(t)
      PROVE  TypeOK'
  <2>1. check_pending_signals(t)
    BY <1>9 DEF HandleSignals
  <2>2. pc' \in [Thread -> {"unborn", "user", "trap", "gone"}]
    BY <1>9 DEF HandleSignals, Exits, TypeOK
  <2>3. running' = NONE
    BY <1>9 DEF HandleSignals
  <2>4. UNCHANGED <<signal_mask, signal_actions, sent>>
    BY <2>1 DEF check_pending_signals
  <2> QED
    BY <2>1, <2>2, <2>3, <2>4, PassType DEF TypeOK
<1>10. ASSUME NEW t \in Thread, Exit(t)
       PROVE  TypeOK'
  BY <1>10 DEF Exit, Exits, TypeOK, thread_vars, hist_vars
<1>11. CASE UNCHANGED vars
  BY <1>11 DEF vars, thread_vars, hist_vars, TypeOK
<1> QED
  BY <1>1, <1>2, <1>3, <1>4, <1>5, <1>6, <1>7, <1>8, <1>9, <1>10, <1>11, Zenon DEF Next

(* The variables of the process and of its threads keep their types; in    *)
(* particular a trap context is never replaced by a missing backup: the    *)
(* kernel panics first.                                                    *)
THEOREM SignalTypes == Spec => []TypeOK
BY InitType, NextType, PTL DEF Spec

------------------------------------------------------------------------------
(* Conservation. *)

LEMMA SentStep ==
  ASSUME TypeOK, SignalsConserved, NEW s \in Signal, Accept(s)
  PROVE  SignalsConserved'
BY DEF TypeOK, SignalsConserved, Accept

LEMMA ConservedStep == TypeOK /\ SignalsConserved /\ [Next]_vars => SignalsConserved'
<1> SUFFICES ASSUME TypeOK, SignalsConserved, [Next]_vars
             PROVE  SignalsConserved'
  OBVIOUS
<1>1. ASSUME NEW s \in Signal, Accept(s)
      PROVE  SignalsConserved'
  BY <1>1, SentStep
<1>2. \A n \in KillArg : Flag(n) \in Signal
  BY DEF Signal
<1>3. SIGSEGV \in Signal
  BY DEF Signal
<1>4. CASE UNCHANGED <<signals, hist_vars>>
  BY <1>4 DEF SignalsConserved, hist_vars
<1>5. ASSUME NEW t \in Thread, HandleSignals(t)
      PROVE  SignalsConserved'
  <2>1. /\ signals' = signals \ Cleared(t)
        /\ taken' = [s \in Signal |-> IF s \in Cleared(t) THEN taken[s] + 1
                                                         ELSE taken[s]]
        /\ sent' = sent
    BY <1>5 DEF HandleSignals, check_pending_signals
  <2>2. Cleared(t) \subseteq signals
    BY ReachedPending
  <2> QED
    BY <2>1, <2>2 DEF SignalsConserved, TypeOK
<1>6. ASSUME NEW n \in KillArg, sys_kill(n)
      PROVE  SignalsConserved'
  BY <1>1, <1>2, <1>6 DEF sys_kill
<1>7. ASSUME NEW t \in Thread, NEW n \in KillArg, sys_kill_self(t, n)
      PROVE  SignalsConserved'
  BY <1>1, <1>2, <1>7 DEF sys_kill_self
<1>8. ASSUME NEW t \in Thread, Fault(t)
      PROVE  SignalsConserved'
  BY <1>1, <1>3, <1>4, <1>8 DEF Fault
<1>9. ASSUME NEW t \in Thread,
             \/ SuspendingTrap(t) \/ OtherTrap(t) \/ sys_sigreturn(t) \/ Exit(t)
             \/ \E m \in ProcMask[t] : sys_sigprocmask(t, m)
             \/ \E n \in ActionArg, a \in ActionGiven[t] : sys_sigaction(t, n, a)
             \/ \E u \in Thread : sys_thread_create(t, u)
      PROVE  SignalsConserved'
  BY <1>4, <1>9 DEF SuspendingTrap, OtherTrap, sys_sigreturn, Exit,
       sys_sigprocmask, sys_sigaction, sys_thread_create
<1>10. CASE UNCHANGED vars
  BY <1>4, <1>10 DEF vars
<1> QED
  BY <1>5, <1>6, <1>7, <1>8, <1>9, <1>10, Zenon DEF Next

(* Every signal that sys_kill accepted or a fault raised is still pending  *)
(* or was acted upon once, whichever thread came first.                    *)
THEOREM NoSignalLost == Spec => []SignalsConserved
<1>1. Init => SignalsConserved
  BY DEF Init, SignalsConserved
<1> QED
  BY <1>1, InitType, NextType, ConservedStep, PTL DEF Spec

------------------------------------------------------------------------------
(* Handlers. *)

(* signal_handling and trap_cx_backup are set and reset together, and the  *)
(* backup is what the innermost handler interrupted.  A context other than *)
(* the main program that is saved, or that has none saved, tells of a      *)
(* handler that was let in by the mask of the one before.                  *)
HandlerInv(t) ==
  /\ trap_cx_backup[t] # NONE =>
       /\ signal_handling[t] \in UserSignal
       /\ trap_cx[t] = Append(trap_cx_backup[t], signal_handling[t])
       /\ trap_cx_backup[t] # <<>> => nested[t]
  /\ trap_cx_backup[t] = NONE =>
       /\ signal_handling[t] = NONE
       /\ trap_cx[t] # <<>> => nested[t]

HandlersInv == \A t \in Thread : HandlerInv(t)

LEMMA HandlersStep ==
  ASSUME TypeOK, HandlersInv, [Next]_vars
  PROVE  HandlersInv'
<1>1. ASSUME UNCHANGED <<signal_handling, trap_cx_backup, trap_cx, nested>>
      PROVE  HandlersInv'
  BY <1>1 DEF HandlersInv, HandlerInv
<1>2. ASSUME NEW t \in Thread, HandleSignals(t)
      PROVE  HandlersInv'
  <2>1. call_user_signal_handler(t)
    BY <1>2, Zenon DEF HandleSignals, check_pending_signals
  <2>2. CASE Handled(t) = {}
    BY <1>1, <2>1, <2>2, Zenon DEF call_user_signal_handler
  <2>3. CASE Handled(t) # {}
    <3>1. PICK s \in UserSignal : Handled(t) = {s} /\ Min(Handled(t)) = s
      BY <2>3, OneHandled
    <3>2. /\ signal_handling' = [signal_handling EXCEPT ![t] = s]
          /\ trap_cx_backup' = [trap_cx_backup EXCEPT ![t] = trap_cx[t]]
          /\ trap_cx' = [trap_cx EXCEPT ![t] = Append(@, s)]
          /\ nested' = [nested EXCEPT ![t] = @ \/ LetIn(t, s)]
      BY <2>1, <2>3, <3>1 DEF call_user_signal_handler
    <3>3. ~is_handling_masked(t, s)
      BY <3>1 DEF Handled, Reached, Deliverable
    <3>4. trap_cx[t] # <<>> => nested[t] \/ LetIn(t, s)
      BY <3>3, SignalIsNat, Zenon DEF HandlersInv, HandlerInv, is_handling_masked, LetIn
    <3>5. HandlerInv(t)'
      <4>1. /\ signal_handling'[t] = s
            /\ trap_cx_backup'[t] = trap_cx[t]
            /\ trap_cx'[t] = Append(trap_cx[t], s)
            /\ nested'[t] = (nested[t] \/ LetIn(t, s))
        BY <3>2, Zenon DEF TypeOK
      <4>2. trap_cx[t] # NONE
        <5>1. trap_cx[t] \in Context
          BY Zenon DEF TypeOK
        <5>2. NONE \notin Context
          BY SignalsAssumption DEF Context
        <5> QED
          BY <5>1, <5>2, Zenon
      <4> QED
        BY <3>4, <4>1, <4>2, Zenon DEF HandlerInv
    <3>6. \A u \in Thread \ {t} : HandlerInv(u)'
      BY <3>2 DEF TypeOK, HandlersInv, HandlerInv
    <3> QED
      BY <3>5, <3>6, Zenon DEF HandlersInv
  <2> QED
    BY <2>2, <2>3
<1>3. ASSUME NEW t \in Thread, sys_sigreturn(t)
      PROVE  HandlersInv'
  <2>1. /\ signal_handling' = [signal_handling EXCEPT ![t] = NONE]
        /\ nested' = nested
    BY <1>3, Zenon DEF sys_sigreturn
  <2>2. CASE trap_cx_backup[t] = NONE
    <3>1. trap_cx' = trap_cx /\ trap_cx_backup' = trap_cx_backup
      BY <1>3, <2>2, Zenon DEF sys_sigreturn
    <3> QED
      BY <2>1, <2>2, <3>1 DEF TypeOK, HandlersInv, HandlerInv
  <2>3. CASE trap_cx_backup[t] # NONE
    <3>1. /\ trap_cx' = [trap_cx EXCEPT ![t] = trap_cx_backup[t]]
          /\ trap_cx_backup' = [trap_cx_backup EXCEPT ![t] = NONE]
      BY <1>3, <2>3, Zenon DEF sys_sigreturn
    <3>2. HandlerInv(t)'
      <4>1. /\ signal_handling'[t] = NONE
            /\ trap_cx_backup'[t] = NONE
            /\ trap_cx'[t] = trap_cx_backup[t]
        BY <2>1, <3>1, Zenon DEF TypeOK
      <4> QED
        BY <2>1, <2>3, <4>1, Zenon DEF HandlersInv, HandlerInv
    <3>3. \A u \in Thread \ {t} : HandlerInv(u)'
      BY <2>1, <3>1 DEF TypeOK, HandlersInv, HandlerInv
    <3> QED
      BY <3>2, <3>3, Zenon DEF HandlersInv
  <2> QED
    BY <2>2, <2>3
<1>4. ASSUME NEW t \in Thread,
             \/ SuspendingTrap(t) \/ OtherTrap(t) \/ Exit(t) \/ Fault(t)
             \/ \E n \in KillArg : sys_kill_self(t, n)
             \/ \E m \in ProcMask[t] : sys_sigprocmask(t, m)
             \/ \E n \in ActionArg, a \in ActionGiven[t] : sys_sigaction(t, n, a)
             \/ \E u \in Thread : sys_thread_create(t, u)
      PROVE  HandlersInv'
  BY <1>1, <1>4 DEF SuspendingTrap, OtherTrap, Exit, Fault, sys_kill_self,
       sys_sigprocmask, sys_sigaction, sys_thread_create, thread_vars
<1>5. ASSUME NEW n \in KillArg, sys_kill(n)
      PROVE  HandlersInv'
  BY <1>1, <1>5 DEF sys_kill, thread_vars
<1>6. CASE UNCHANGED vars
  BY <1>1, <1>6 DEF vars, thread_vars
<1> QED
  BY <1>2, <1>3, <1>4, <1>5, <1>6, Zenon DEF Next

(* For any masks: a saved context is the one that the innermost handler    *)
(* interrupted, and the unwrap of sys_sigreturn finds one in every handler *)
(* unless the mask of an action let a second handler in.                   *)
THEOREM HandlersReturn == Spec => []SigreturnRestores
<1>1. Init => HandlersInv
  BY DEF Init, HandlersInv, HandlerInv
<1>2. TypeOK /\ HandlersInv /\ [Next]_vars => HandlersInv'
  BY HandlersStep
<1>3. HandlersInv => SigreturnRestores
  BY Zenon DEF HandlersInv, HandlerInv, SigreturnRestores
<1> QED
  BY <1>1, <1>2, <1>3, InitType, NextType, PTL DEF Spec

------------------------------------------------------------------------------
(* SIGKILL, SIGSTOP and SIGCONT. *)

(* A thread goes from a trap to user mode only at the end of trap_handler. *)
LEMMA BackToUser ==
  ASSUME TypeOK, [Next]_vars, NEW t \in Thread, pc[t] = "trap", pc'[t] = "user"
  PROVE  HandleSignals(t)
<1>1. ASSUME NEW u \in Thread, u # t, HandleSignals(u)
      PROVE  FALSE
  BY <1>1 DEF HandleSignals, Exits, TypeOK
<1>2. \E u \in Thread : HandleSignals(u)
  BY Zenon DEF TypeOK, Next, vars, sys_kill, SuspendingTrap, OtherTrap, Enter,
       InUser, sys_kill_self, Fault, sys_sigprocmask, sys_sigaction,
       sys_sigreturn, sys_thread_create, Exit, Exits
<1> QED
  BY <1>1, <1>2, SMTT(30)

(* SIGKILL and SIGDEF are never cleared. *)
LEMMA KillersStay ==
  ASSUME TypeOK, [Next]_vars, NEW s \in {SIGKILL, SIGDEF}, s \in signals
  PROVE  s \in signals'
<1>1. ASSUME NEW t \in Thread, HandleSignals(t)
      PROVE  s \in signals'
  <2>1. s \notin UserSignal \cup {SIGSTOP, SIGCONT}
    BY DEF UserSignal, KernelSignal, SIGKILL, SIGDEF, SIGSTOP, SIGCONT
  <2>2. signals' = signals \ Cleared(t)
    BY <1>1, Zenon DEF HandleSignals, check_pending_signals
  <2> QED
    BY <2>1, <2>2, ReachedPending, Zenon DEF Cleared
<1> QED
  BY <1>1, Zenon DEF Next, vars, sys_kill, SuspendingTrap, OtherTrap, sys_kill_self,
       Accept, Fault, sys_sigprocmask, sys_sigaction, sys_sigreturn,
       sys_thread_create, Exit

(* A thread was marked killed by a signal that is still pending. *)
KilledInv == \A t \in Thread : killed[t] => {SIGKILL, SIGDEF} \cap signals # {}

LEMMA KilledStep ==
  ASSUME TypeOK, KilledInv, [Next]_vars
  PROVE  KilledInv'
<1>1. ASSUME {SIGKILL, SIGDEF} \cap signals # {}
      PROVE  {SIGKILL, SIGDEF} \cap signals' # {}
  BY <1>1, KillersStay, Zenon
<1>2. ASSUME UNCHANGED killed
      PROVE  KilledInv'
  BY <1>1, <1>2, Zenon DEF KilledInv
<1>3. ASSUME NEW t \in Thread, HandleSignals(t)
      PROVE  KilledInv'
  <2>1. ASSUME NEW u \in Thread, killed'[u], ~killed[u]
        PROVE  {SIGKILL, SIGDEF} \cap signals # {}
    <3>1. {SIGKILL, SIGDEF} \cap Reached(t) # {}
      BY <1>3, <2>1, Zenon DEF HandleSignals, check_pending_signals,
           call_kernel_signal_handler
    <3>2. Reached(t) \subseteq signals
      BY ReachedPending, Zenon
    <3> QED
      BY <3>1, <3>2, Zenon
  <2> QED
    BY <1>1, <2>1, Zenon DEF KilledInv
<1>4. UNCHANGED killed \/ \E t \in Thread : HandleSignals(t)
  BY DEF Next, vars, thread_vars, sys_kill, SuspendingTrap, OtherTrap,
       sys_kill_self, Fault, sys_sigprocmask, sys_sigaction, sys_sigreturn,
       sys_thread_create, Exit
<1> QED
  BY <1>2, <1>3, <1>4

(* A thread that SIGKILL or SIGDEF marked killed returns to user mode only *)
(* with SIGDEF pending: the error check of trap_handler finds a SIGKILL,   *)
(* which nothing clears, but does not look for SIGDEF.                     *)
THEOREM KilledGoes == Spec => KilledLeaves
<1>1. Init => KilledInv
  BY DEF Init, KilledInv
<1>2. TypeOK /\ KilledInv /\ [Next]_vars => KilledInv'
  BY KilledStep
<1>3. ASSUME TypeOK, KilledInv, [Next]_vars, NEW t \in Thread,
             killed'[t], pc[t] = "trap", pc'[t] = "user"
      PROVE  SIGDEF \in signals'
  <2>1. HandleSignals(t)
    BY <1>3, BackToUser
  <2>2. {SIGKILL, SIGDEF} \cap signals' # {}
    BY <1>3, KilledStep, Zenon DEF KilledInv
  <2>3. ASSUME SIGKILL \in signals'
        PROVE  FALSE
    <3>1. signals' \cap ErrorSignal # {}
      BY <2>3, Zenon DEF ErrorSignal
    <3>2. Exits(t)
      BY <1>3, <2>1, <3>1 DEF HandleSignals
    <3> QED
      BY <1>3, <3>2 DEF Exits
  <2> QED
    BY <2>2, <2>3, Zenon
<1>4. TypeOK /\ KilledInv /\ [Next]_vars =>
        [\A t \in Thread : killed'[t] /\ pc[t] = "trap" /\ pc'[t] = "user" =>
           SIGDEF \in signals']_vars
  BY <1>3
<1> QED
  BY <1>1, <1>2, <1>4, InitType, NextType, PTL DEF Spec, KilledLeaves

(* A stopped thread returns to user mode only in the step that clears a    *)
(* SIGCONT, or because it is killed: the loop of current_handle_signals    *)
(* has no other way out.                                                   *)
THEOREM StopHolds == Spec => StoppedStays
<1>1. ASSUME TypeOK, [Next]_vars, NEW t \in Thread,
             pc[t] = "trap", frozen[t], pc'[t] = "user"
      PROVE  SIGCONT \in signals \ signals' \/ killed'[t]
  <2>2. HandleSignals(t)
    BY <1>1, BackToUser
  <2>3. ASSUME ~killed'[t]
        PROVE  SIGCONT \in Reached(t)
    <3>1. ~frozen'[t]
      <4>1. ASSUME frozen'[t]
            PROVE  pc' = pc
        BY <2>2, <2>3, <4>1 DEF HandleSignals
      <4> QED
        BY <1>1, <4>1
    <3> QED
      BY <1>1, <2>2, <3>1, Zenon DEF HandleSignals, check_pending_signals,
           call_kernel_signal_handler
  <2>4. Reached(t) \subseteq signals
    BY <1>1, ReachedPending, Zenon
  <2>5. signals' = signals \ Cleared(t)
    BY <2>2, Zenon DEF HandleSignals, check_pending_signals
  <2> QED
    BY <2>3, <2>4, <2>5, Zenon DEF Cleared
<1>2. TypeOK /\ [Next]_vars =>
        [\A t \in Thread : pc[t] = "trap" /\ frozen[t] /\ pc'[t] = "user" =>
           SIGCONT \in signals \ signals' \/ killed'[t]]_vars
  BY <1>1
<1> QED
  BY <1>2, InitType, NextType, PTL DEF Spec, StoppedStays
-----------------------------------------------------------------------------
(***************************************************************************)
(* Net.  SocketsOwned alone is not inductive: that add_socket and Drop keep*)
(* one file for each entry needs that no two files have the same entry     *)
(* (SocketInv, PortInv), and that a SYN finds its accept needs that the    *)
(* accept which waits is the one call that runs, and has room (CallInv).   *)
(***************************************************************************)

(* A socket file has an entry of its connection, to itself, with the packets  *)
(* that came for it; every entry in use has a file; and no two have the same  *)
(* connection.                                                                *)
SocketInv ==
  /\ \A k \in Of("socket") : /\ file[k].idx \in DOMAIN sockets
                             /\ sockets[file[k].idx] # None
                             /\ sockets[file[k].idx].conn = file[k].conn
                             /\ sockets[file[k].idx].buffers = owed[k]
  /\ \A k \in Of("socket"), j \in Of("socket") : file[k].idx = file[j].idx => k = j
  /\ \A i \in DOMAIN sockets : sockets[i] # None => \E k \in Of("socket") : file[k].idx = i
  /\ \A i \in DOMAIN sockets, j \in DOMAIN sockets :
       sockets[i] # None /\ sockets[j] # None /\ sockets[i].conn = sockets[j].conn => i = j

(* The same of the files of ports. *)
PortInv ==
  /\ \A k \in Of("port") : file[k].idx \in DOMAIN listening /\ listening[file[k].idx] # None
  /\ \A k \in Of("port"), j \in Of("port") : file[k].idx = file[j].idx => k = j
  /\ \A i \in DOMAIN listening : listening[i] # None => \E k \in Of("port") : file[k].idx = i

(* Somebody waits at a port only in the one accept that runs, for which there *)
(* is room; a read that runs has an open socket.                              *)
CallInv ==
  panic = "no" =>
    /\ \A i \in DOMAIN listening :
         listening[i] # None /\ listening[i].schedule # None =>
           busy = [call |-> "accept", proc |-> listening[i].schedule, idx |-> i]
    /\ busy # None /\ busy.call = "accept" =>
         busy.proc \in DOMAIN fds /\ Cardinality(DOMAIN file) < MaxFile
    /\ busy # None /\ busy.call = "read" => busy.idx \in Of("socket")

NetInv == NetTypeOK /\ SocketInv /\ PortInv /\ CallInv
-----------------------------------------------------------------------------
(* The tables *)

LEMMA LeastIsMember ==
  ASSUME NEW S \in SUBSET Nat, S # {}
  PROVE  Min(S) \in S
<1>1. PICK i \in S : \A j \in S : ~(<<j, i>> \in OpToRel(<, Nat))
  BY NatLessThanWellFounded, WFMin, Zenon
<1>2. \A j \in S : ~(j < i)
  BY <1>1, Zenon DEF OpToRel
<1>3. \A j \in S : i <= j
  BY <1>2
<1> QED
  BY <1>3, Zenon DEF Min

(* A new entry goes to an empty slot or to the end. *)
LEMMA SlotIsFree ==
  ASSUME NEW S, NEW t \in Seq(S), NEW e
  PROVE  Slot(t, e) \in 1..(Len(t) + 1) /\ (Slot(t, e) \in DOMAIN t => t[Slot(t, e)] = e)
<1> DEFINE free == {i \in DOMAIN t : t[i] = e}
<1>1. DOMAIN t = 1..Len(t) /\ Len(t) \in Nat
  OBVIOUS
<1>2. CASE free = {}
  BY <1>1, <1>2 DEF Slot
<1>3. CASE free # {}
  <2>1. free \in SUBSET Nat
    BY <1>1
  <2>2. Min(free) \in free
    BY <1>3, <2>1, LeastIsMember, Zenon
  <2>3. Slot(t, e) = Min(free)
    BY <1>3 DEF Slot
  <2> QED
    BY <1>1, <2>2, <2>3
<1> QED
  BY <1>2, <1>3

(* Table u is table t with entry x in slot i, which was empty or is new. *)
AddsEntry(S, t, i, e, x, u) ==
  /\ i \in Nat /\ (i \in DOMAIN t => t[i] = e)
  /\ u \in Seq(S) /\ DOMAIN u = DOMAIN t \cup {i}
  /\ u[i] = x /\ \A j \in DOMAIN t \ {i} : u[j] = t[j]

LEMMA EntryAdded ==
  ASSUME NEW S, NEW t \in Seq(S), NEW e, NEW x \in S
  PROVE  AddsEntry(S, t, Slot(t, e), e, x, Put(t, Slot(t, e), x))
<1>1. PICK i : i = Slot(t, e)
  OBVIOUS
<1>2. i \in 1..(Len(t) + 1) /\ (i \in DOMAIN t => t[i] = e)
  BY <1>1, SlotIsFree
<1>3. PICK n : n = IF i > Len(t) THEN i ELSE Len(t)
  OBVIOUS
<1>4. n \in Nat /\ i \in 1..n /\ 1..n = DOMAIN t \cup {i} /\ DOMAIN t = 1..Len(t)
  BY <1>2, <1>3
<1>5. PICK u : u = [j \in 1..n |-> IF j = i THEN x ELSE t[j]]
  BY Zenon
<1>6. AddsEntry(S, t, i, e, x, u)
  <2>1. \A j \in 1..n : (IF j = i THEN x ELSE t[j]) \in S
    BY <1>4
  <2> QED
    BY <1>2, <1>4, <1>5, <2>1 DEF AddsEntry
<1>7. Put(t, i, x) = u
  BY <1>3, <1>5 DEF Put
<1> QED
  BY <1>1, <1>6, <1>7, Zenon

(* The number of a new file is not in use. *)
LEMMA FreshIsNew ==
  ASSUME DOMAIN file \subseteq File, Cardinality(DOMAIN file) < MaxFile
  PROVE  FreshFile \in File \ DOMAIN file
<1>1. MaxFile \in Nat
  BY NetAssumption
<1>2. Cardinality(1..MaxFile) = IF 1 > MaxFile THEN 0 ELSE MaxFile - 1 + 1
  BY <1>1, FS_Interval
<1>3. File \ DOMAIN file # {}
  <2>1. ASSUME File \ DOMAIN file = {}
        PROVE  DOMAIN file = 1..MaxFile
    BY <2>1, Zenon DEF File
  <2>2. Cardinality(1..MaxFile) = MaxFile
    BY <1>1, <1>2
  <2>3. DOMAIN file # 1..MaxFile
    <3>1. PICK D : D = DOMAIN file
      OBVIOUS
    <3>2. Cardinality(D) < MaxFile
      BY <3>1, Zenon
    <3>3. D # 1..MaxFile
      BY <1>1, <2>2, <3>2
    <3> QED
      BY <3>1, <3>3, Zenon
  <2> QED
    BY <2>1, <2>3, Zenon
<1>4. File \ DOMAIN file \in SUBSET Nat
  BY DEF File
<1> QED
  BY <1>3, <1>4, LeastIsMember DEF FreshFile
-----------------------------------------------------------------------------
(* Files that are opened and dropped *)

(* Opens adds a file, and a descriptor of it. *)
LEMMA OpensFile ==
  ASSUME NetTypeOK, NEW p \in DOMAIN fds, NEW f \in OpenFile, Opens(p, f),
         Cardinality(DOMAIN file) < MaxFile
  PROVE  \E n \in File \ DOMAIN file :
           /\ DOMAIN file' = DOMAIN file \cup {n} /\ DOMAIN file' \subseteq File
           /\ file' \in [DOMAIN file' -> OpenFile]
           /\ file'[n] = f /\ \A k \in DOMAIN file : file'[k] = file[k]
           /\ owed' \in [DOMAIN file' -> Seq(Data \cup {Empty})]
           /\ owed'[n] = <<>> /\ \A k \in DOMAIN file : owed'[k] = owed[k]
           /\ DOMAIN fds' = DOMAIN fds
           /\ fds' \in [DOMAIN fds' -> Seq({0} \cup DOMAIN file')]
<1>1. PICK n : n = FreshFile
  OBVIOUS
<1>2. n \in File \ DOMAIN file
  BY <1>1, FreshIsNew, Zenon DEF NetTypeOK
<1>3. /\ file' = [j \in DOMAIN file \cup {n} |-> IF j = n THEN f ELSE file[j]]
      /\ owed' = [j \in DOMAIN owed \cup {n} |-> IF j = n THEN <<>> ELSE owed[j]]
      /\ fds' = [fds EXCEPT ![p] = Put(@, Slot(@, 0), n)]
  BY <1>1, Zenon DEF Opens, Added, Given
<1>4. DOMAIN owed = DOMAIN file /\ file \in [DOMAIN file -> OpenFile]
      /\ owed \in [DOMAIN file -> Seq(Data \cup {Empty})]
      /\ fds \in [DOMAIN fds -> Seq({0} \cup DOMAIN file)]
  BY Zenon DEF NetTypeOK
<1>5. DOMAIN file' = DOMAIN file \cup {n} /\ DOMAIN file' \subseteq File
  BY <1>2, <1>3, Zenon DEF NetTypeOK
<1>6. file' \in [DOMAIN file' -> OpenFile] /\ file'[n] = f
      /\ \A k \in DOMAIN file : file'[k] = file[k]
  BY <1>2, <1>3, <1>4, <1>5
<1>7. owed' \in [DOMAIN file' -> Seq(Data \cup {Empty})] /\ owed'[n] = <<>>
      /\ \A k \in DOMAIN file : owed'[k] = owed[k]
  BY <1>2, <1>3, <1>4, <1>5
<1>8. DOMAIN fds' = DOMAIN fds /\ fds' \in [DOMAIN fds' -> Seq({0} \cup DOMAIN file')]
  <2>1. PICK T : T = {0} \cup DOMAIN file'
    BY Zenon
  <2>2. \A q \in DOMAIN fds : fds[q] \in Seq(T)
    BY <1>4, <1>5, <2>1
  <2>3. Put(fds[p], Slot(fds[p], 0), n) \in Seq(T)
    BY <1>5, <2>1, <2>2, EntryAdded, Zenon DEF AddsEntry
  <2>4. DOMAIN fds' = DOMAIN fds /\ fds' \in [DOMAIN fds' -> Seq(T)]
    BY <1>3, <1>4, <2>2, <2>3
  <2> QED
    BY <2>1, <2>4
<1> QED
  BY <1>2, <1>5, <1>6, <1>7, <1>8, Zenon

(* add_socket keeps one entry for each connection, and each with its file.    *)
LEMMA AddSocketKeeps ==
  ASSUME NetTypeOK, SocketInv, NEW p \in DOMAIN fds, NEW c \in Conn, AddSocket(p, c),
         Cardinality(DOMAIN file) < MaxFile
  PROVE  /\ sockets' \in Seq(Socket \cup {None}) /\ SocketInv'
         /\ DOMAIN file' \subseteq File /\ file' \in [DOMAIN file' -> OpenFile]
         /\ owed' \in [DOMAIN file' -> Seq(Data \cup {Empty})]
         /\ DOMAIN fds' \subseteq Pid /\ fds' \in [DOMAIN fds' -> Seq({0} \cup DOMAIN file')]
         /\ panic' \in {panic, "socket_exists"}
         /\ Of("port")' = Of("port") /\ \A k \in Of("port") : file'[k] = file[k]
<1>1. CASE GetSocket(c) # {} /\ panic' = "socket_exists"
           /\ UNCHANGED <<sockets, file, fds, owed>>
  <2>1. SocketInv'
    BY <1>1 DEF SocketInv, Of
  <2>2. Of("port")' = Of("port") /\ \A k \in Of("port") : file'[k] = file[k]
    BY <1>1 DEF Of
  <2>3. sockets' = sockets /\ file' = file /\ fds' = fds /\ owed' = owed
    BY <1>1
  <2> QED
    BY <1>1, <2>1, <2>2, <2>3, ZenonT(30) DEF NetTypeOK
<1> DEFINE i == Slot(sockets, None)
           x == [conn |-> c, buffers |-> <<>>]
           f == [kind |-> "socket", idx |-> i, conn |-> c]
<1>2. CASE GetSocket(c) = {} /\ sockets' = Put(sockets, i, x) /\ Opens(p, f)
           /\ UNCHANGED panic
  <2>1. sockets \in Seq(Socket \cup {None}) /\ x \in Socket /\ x \in Socket \cup {None}
    <3>1. sockets \in Seq(Socket \cup {None})
      BY Zenon DEF NetTypeOK
    <3>2. x \in Socket
      BY DEF Socket
    <3> QED
      BY <3>1, <3>2, Zenon
  <2>2. AddsEntry(Socket \cup {None}, sockets, i, None, x, sockets')
    BY <1>2, <2>1, EntryAdded, Zenon
  <2> HIDE DEF i, x
  <2>3. /\ i \in Nat /\ (i \in DOMAIN sockets => sockets[i] = None)
        /\ sockets' \in Seq(Socket \cup {None}) /\ DOMAIN sockets' = DOMAIN sockets \cup {i}
        /\ sockets'[i] = x /\ \A j \in DOMAIN sockets \ {i} : sockets'[j] = sockets[j]
    BY <2>2, Zenon DEF AddsEntry
  <2>4. f \in OpenFile
    BY <2>3 DEF OpenFile
  <2>5. PICK n \in File \ DOMAIN file :
           /\ DOMAIN file' = DOMAIN file \cup {n} /\ DOMAIN file' \subseteq File
           /\ file' \in [DOMAIN file' -> OpenFile]
           /\ file'[n] = f /\ \A k \in DOMAIN file : file'[k] = file[k]
           /\ owed' \in [DOMAIN file' -> Seq(Data \cup {Empty})]
           /\ owed'[n] = <<>> /\ \A k \in DOMAIN file : owed'[k] = owed[k]
           /\ DOMAIN fds' = DOMAIN fds
           /\ fds' \in [DOMAIN fds' -> Seq({0} \cup DOMAIN file')]
    BY <1>2, <2>4, OpensFile, Zenon
  <2>6. /\ f.kind = "socket" /\ f.idx = i /\ f.conn = c
        /\ x.conn = c /\ x.buffers = <<>> /\ x # None
    BY <2>1, NoneIsNoEntry, Zenon DEF x
  <2> HIDE DEF f
  <2>7. Of("socket")' = Of("socket") \cup {n} /\ Of("port")' = Of("port") /\ n \notin Of("socket")
    <3>1. \A k : k \in Of("socket")' <=> k = n \/ k \in Of("socket")
      BY <2>5, <2>6, Zenon DEF Of
    <3>2. \A k : k \in Of("port")' <=> k \in Of("port")
      BY <2>5, <2>6, Zenon DEF Of
    <3> QED
      BY <2>5, <3>1, <3>2, Zenon DEF Of
  <2>8. \A k \in Of("socket") : /\ k \in DOMAIN file /\ file[k].idx # i
                                /\ file[k].idx \in DOMAIN sockets
    BY <2>3, SMTT(30) DEF SocketInv, Of
  <2>9. \A j \in DOMAIN sockets : sockets[j] # None => sockets[j].conn # c /\ j # i
    BY <1>2, <2>3 DEF GetSocket
  <2>10. SocketInv'
    <3>1. ASSUME NEW k \in Of("socket")'
          PROVE  /\ file'[k].idx \in DOMAIN sockets'
                 /\ sockets'[file'[k].idx] # None
                 /\ sockets'[file'[k].idx].conn = file'[k].conn
                 /\ sockets'[file'[k].idx].buffers = owed'[k]
      <4>1. CASE k = n
        BY <2>3, <2>5, <2>6, <4>1, Zenon
      <4>2. CASE k \in Of("socket")
        <5>1. PICK m : m = file[k].idx
          BY Zenon
        <5>2. /\ m \in DOMAIN sockets \ {i} /\ sockets[m] # None
              /\ sockets[m].conn = file[k].conn /\ sockets[m].buffers = owed[k]
          BY <2>8, <4>2, <5>1, Zenon DEF SocketInv
        <5>3. file'[k] = file[k] /\ owed'[k] = owed[k]
          BY <2>5, <2>8, <4>2, Zenon
        <5>4. m \in DOMAIN sockets' /\ sockets'[m] = sockets[m]
          BY <2>3, <5>2, Zenon
        <5> QED
          BY <5>1, <5>2, <5>3, <5>4, Zenon
      <4> QED
        BY <2>7, <3>1, <4>1, <4>2, Zenon
    <3>2. ASSUME NEW k \in Of("socket")', NEW j \in Of("socket")', file'[k].idx = file'[j].idx
          PROVE  k = j
      BY <2>5, <2>6, <2>7, <2>8, <3>2 DEF SocketInv
    <3>3. ASSUME NEW j \in DOMAIN sockets', sockets'[j] # None
          PROVE  \E k \in Of("socket")' : file'[k].idx = j
      <4>1. CASE j = i
        BY <2>5, <2>6, <2>7, <4>1, Zenon
      <4>2. CASE j # i
        <5>1. PICK k \in Of("socket") : file[k].idx = j
          BY <2>3, <3>3, <4>2, Zenon DEF SocketInv
        <5> QED
          BY <2>5, <2>7, <2>8, <5>1, Zenon
      <4> QED
        BY <4>1, <4>2, Zenon
    <3>4. ASSUME NEW j \in DOMAIN sockets', NEW k \in DOMAIN sockets',
                 sockets'[j] # None, sockets'[k] # None, sockets'[j].conn = sockets'[k].conn
          PROVE  j = k
      BY <2>3, <2>6, <2>9, <3>4 DEF SocketInv
    <3> QED
      BY <3>1, <3>2, <3>3, <3>4, Zenon DEF SocketInv
  <2>11. \A k \in Of("port") : file'[k] = file[k]
    BY <2>5 DEF Of
  <2> QED
    BY <1>2, <2>3, <2>5, <2>7, <2>10, <2>11, Zenon DEF NetTypeOK
<1> QED
  BY <1>1, <1>2, Zenon DEF AddSocket
-----------------------------------------------------------------------------
(* The steps *)

(* Nobody waits at a port while no call runs. *)
LEMMA NobodyWaits ==
  ASSUME NetTypeOK, CallInv, panic = "no", busy = None
  PROVE  \A i \in DOMAIN listening : listening[i] # None => listening[i].schedule = None
<1> SUFFICES ASSUME NEW i \in DOMAIN listening, listening[i] # None,
                    listening[i].schedule # None
             PROVE  FALSE
  BY Zenon
<1>1. busy = [call |-> "accept", proc |-> listening[i].schedule, idx |-> i]
  BY Zenon DEF CallInv
<1>2. i \in Nat /\ listening[i].schedule \in Pid
  BY DEF NetTypeOK, Entry
<1>3. busy \in Waits
  BY <1>1, <1>2 DEF Waits
<1> QED
  BY <1>3, NoneIsNoEntry, Zenon

LEMMA NoCallRuns ==
  ASSUME busy' = None,
         \A i \in DOMAIN listening' : listening'[i] # None => listening'[i].schedule = None
  PROVE  CallInv'
  BY ZenonT(30) DEF CallInv

LEMMA CallKept ==
  ASSUME CallInv, listening' = listening, file' = file, fds' = fds, panic' = panic,
         busy' = busy
  PROVE  CallInv'
  BY DEF CallInv, Of

(* The sockets of a step that leaves them and their files alone. *)
LEMMA SocketsKept ==
  ASSUME SocketInv, sockets' = sockets, Of("socket")' = Of("socket"),
         \A k \in Of("socket") : file'[k] = file[k] /\ owed'[k] = owed[k]
  PROVE  SocketInv'
<1>1. ASSUME NEW k \in Of("socket")'
      PROVE  /\ file'[k].idx \in DOMAIN sockets' /\ sockets'[file'[k].idx] # None
             /\ sockets'[file'[k].idx].conn = file'[k].conn
             /\ sockets'[file'[k].idx].buffers = owed'[k]
  BY DEF SocketInv
<1>2. ASSUME NEW k \in Of("socket")', NEW j \in Of("socket")', file'[k].idx = file'[j].idx
      PROVE  k = j
  BY <1>2 DEF SocketInv
<1>3. ASSUME NEW i \in DOMAIN sockets', sockets'[i] # None
      PROVE  \E k \in Of("socket")' : file'[k].idx = i
  BY <1>3 DEF SocketInv
<1>4. ASSUME NEW i \in DOMAIN sockets', NEW j \in DOMAIN sockets',
             sockets'[i] # None, sockets'[j] # None, sockets'[i].conn = sockets'[j].conn
      PROVE  i = j
  BY <1>4 DEF SocketInv
<1> QED
  BY <1>1, <1>2, <1>3, <1>4, ZenonT(30) DEF SocketInv

LEMMA PortsKept ==
  ASSUME PortInv, DOMAIN listening' = DOMAIN listening,
         \A i \in DOMAIN listening : listening'[i] # None <=> listening[i] # None,
         Of("port")' = Of("port"), \A k \in Of("port") : file'[k] = file[k]
  PROVE  PortInv'
<1>1. ASSUME NEW k \in Of("port")'
      PROVE  file'[k].idx \in DOMAIN listening' /\ listening'[file'[k].idx] # None
  BY DEF PortInv
<1>2. ASSUME NEW k \in Of("port")', NEW j \in Of("port")', file'[k].idx = file'[j].idx
      PROVE  k = j
  BY <1>2 DEF PortInv
<1>3. ASSUME NEW i \in DOMAIN listening', listening'[i] # None
      PROVE  \E k \in Of("port")' : file'[k].idx = i
  BY <1>3 DEF PortInv
<1> QED
  BY <1>1, <1>2, <1>3, Zenon DEF PortInv

LEMMA ConnectStep ==
  ASSUME NetInv, NEW p \in Pid, NEW c \in Conn, sys_connect(p, c)
  PROVE  NetInv'
<1>1. /\ panic = "no" /\ busy = None /\ p \in DOMAIN fds /\ AddSocket(p, c)
      /\ Cardinality(DOMAIN file) < MaxFile /\ listening' = listening /\ busy' = busy
  BY Zenon DEF sys_connect, Calls, CanOpen
<1>2. /\ sockets' \in Seq(Socket \cup {None}) /\ SocketInv'
      /\ DOMAIN file' \subseteq File /\ file' \in [DOMAIN file' -> OpenFile]
      /\ owed' \in [DOMAIN file' -> Seq(Data \cup {Empty})]
      /\ DOMAIN fds' \subseteq Pid /\ fds' \in [DOMAIN fds' -> Seq({0} \cup DOMAIN file')]
      /\ panic' \in {panic, "socket_exists"}
      /\ Of("port")' = Of("port") /\ \A k \in Of("port") : file'[k] = file[k]
  BY <1>1, AddSocketKeeps, Zenon DEF NetInv
<1>3. NetTypeOK'
  BY <1>1, <1>2, Zenon DEF NetInv, NetTypeOK
<1>4. PortInv'
  BY <1>1, <1>2, PortsKept, Zenon DEF NetInv
<1>5. CallInv'
  BY <1>1, NobodyWaits, NoCallRuns, Zenon DEF NetInv
<1> QED
  BY <1>2, <1>3, <1>4, <1>5, Zenon DEF NetInv

LEMMA ListenStep ==
  ASSUME NetInv, NEW p \in Pid, NEW port \in Port, sys_listen(p, port)
  PROVE  NetInv'
<1> DEFINE i == Slot(listening, None)
           x == [port |-> port, receivable |-> TRUE, schedule |-> None]
           f == [kind |-> "port", idx |-> i, conn |-> None]
<1>1. /\ panic = "no" /\ busy = None /\ p \in DOMAIN fds /\ Opens(p, f)
      /\ Cardinality(DOMAIN file) < MaxFile /\ listening' = Put(listening, i, x)
      /\ sockets' = sockets /\ busy' = busy /\ panic' = panic
  BY Zenon DEF sys_listen, Calls, CanOpen
<1>2. listening \in Seq(Entry \cup {None}) /\ x \in Entry
  BY DEF NetInv, NetTypeOK, Entry
<1>3. AddsEntry(Entry \cup {None}, listening, i, None, x, listening')
  BY <1>1, <1>2, EntryAdded, Zenon
<1>4. x # None /\ x.schedule = None
  BY <1>2, NoneIsNoEntry, Zenon
<1> HIDE DEF i, x
<1>5. /\ i \in Nat /\ (i \in DOMAIN listening => listening[i] = None)
      /\ listening' \in Seq(Entry \cup {None}) /\ DOMAIN listening' = DOMAIN listening \cup {i}
      /\ listening'[i] = x /\ \A j \in DOMAIN listening \ {i} : listening'[j] = listening[j]
  BY <1>3, Zenon DEF AddsEntry
<1>6. f \in OpenFile /\ f.kind = "port" /\ f.idx = i
  BY <1>5 DEF OpenFile
<1> HIDE DEF f
<1>7. PICK n \in File \ DOMAIN file :
        /\ DOMAIN file' = DOMAIN file \cup {n} /\ DOMAIN file' \subseteq File
        /\ file' \in [DOMAIN file' -> OpenFile]
        /\ file'[n] = f /\ \A k \in DOMAIN file : file'[k] = file[k]
        /\ owed' \in [DOMAIN file' -> Seq(Data \cup {Empty})]
        /\ owed'[n] = <<>> /\ \A k \in DOMAIN file : owed'[k] = owed[k]
        /\ DOMAIN fds' = DOMAIN fds
        /\ fds' \in [DOMAIN fds' -> Seq({0} \cup DOMAIN file')]
  BY <1>1, <1>6, OpensFile, Zenon DEF NetInv
<1>8. /\ \A k : k \in Of("port")' <=> k = n \/ k \in Of("port")
      /\ Of("socket")' = Of("socket")
  <2>1. \A k : k \in Of("port")' <=> k = n \/ k \in Of("port")
    BY <1>6, <1>7, Zenon DEF Of
  <2>2. \A k : k \in Of("socket")' <=> k \in Of("socket")
    BY <1>6, <1>7 DEF Of
  <2> QED
    BY <2>1, <2>2
<1>9. \A k \in Of("port") \cup Of("socket") : k \in DOMAIN file
  BY Zenon DEF Of
<1>10. NetTypeOK'
  BY <1>1, <1>5, <1>7, Zenon DEF NetInv, NetTypeOK
<1>11. SocketInv'
  BY <1>1, <1>7, <1>8, <1>9, SocketsKept, Zenon DEF NetInv
<1>12. PortInv'
  <2>1. \A k \in Of("port") : file[k].idx \in DOMAIN listening /\ file[k].idx # i
                              /\ listening[file[k].idx] # None
    BY <1>5 DEF NetInv, PortInv
  <2>2. ASSUME NEW k \in Of("port")'
        PROVE  file'[k].idx \in DOMAIN listening' /\ listening'[file'[k].idx] # None
    BY <1>4, <1>5, <1>6, <1>7, <1>8, <1>9, <2>1, SMTT(30)
  <2>3. ASSUME NEW k \in Of("port")', NEW j \in Of("port")', file'[k].idx = file'[j].idx
        PROVE  k = j
    BY <1>6, <1>7, <1>8, <1>9, <2>1, <2>3 DEF NetInv, PortInv
  <2>4. ASSUME NEW j \in DOMAIN listening', listening'[j] # None
        PROVE  \E k \in Of("port")' : file'[k].idx = j
    <3>1. CASE j = i
      BY <1>6, <1>7, <1>8, <3>1, Zenon
    <3>2. CASE j # i
      <4>1. PICK k \in Of("port") : file[k].idx = j
        BY <1>5, <2>4, <3>2 DEF NetInv, PortInv
      <4> QED
        BY <1>7, <1>8, <1>9, <4>1, Zenon
    <3> QED
      BY <3>1, <3>2, Zenon
  <2> QED
    BY <2>2, <2>3, <2>4, Zenon DEF PortInv
<1>13. CallInv'
  <2>1. \A j \in DOMAIN listening' : listening'[j] # None => listening'[j].schedule = None
    BY <1>1, <1>4, <1>5, NobodyWaits DEF NetInv
  <2> QED
    BY <1>1, <2>1, NoCallRuns, Zenon
<1> QED
  BY <1>10, <1>11, <1>12, <1>13, Zenon DEF NetInv

LEMMA AcceptStep ==
  ASSUME NetInv, NEW p \in Pid, NEW i \in 1..MaxPort, sys_accept(p, i)
  PROVE  NetInv'
<1>1. /\ panic = "no" /\ busy = None /\ p \in DOMAIN fds /\ Cardinality(DOMAIN file) < MaxFile
      /\ sockets' = sockets /\ file' = file /\ fds' = fds /\ owed' = owed
  BY Zenon DEF sys_accept, Calls, CanOpen
<1>2. SocketInv' /\ Of("port")' = Of("port") /\ Of("socket")' = Of("socket")
  BY <1>1, SocketsKept, Zenon DEF NetInv, Of
<1>3. CASE panic' = "no_such_port" /\ listening' = listening /\ busy' = busy
  <2>1. NetTypeOK'
    BY <1>1, <1>3, Zenon DEF NetInv, NetTypeOK
  <2>2. PortInv'
    BY <1>1, <1>2, <1>3, PortsKept, Zenon DEF NetInv
  <2>3. CallInv'
    BY <1>1, <1>3, NobodyWaits, NoCallRuns, Zenon DEF NetInv
  <2> QED
    BY <1>2, <2>1, <2>2, <2>3, Zenon DEF NetInv
<1>4. CASE /\ ~(i > Len(listening) \/ listening[i] = None) /\ panic' = panic
           /\ listening' = [listening EXCEPT ![i].receivable = TRUE, ![i].schedule = p]
           /\ busy' = [call |-> "accept", proc |-> p, idx |-> i]
  <2>1. listening \in Seq(Entry \cup {None}) /\ i \in DOMAIN listening /\ listening[i] \in Entry
    BY <1>4, NetAssumption DEF NetInv, NetTypeOK
  <2>2. PICK x : x = [listening[i] EXCEPT !.receivable = TRUE, !.schedule = p]
    BY Zenon
  <2>3. x \in Entry /\ x # None /\ listening' = [listening EXCEPT ![i] = x]
    BY <1>4, <2>1, <2>2, NoneIsNoEntry, Zenon DEF Entry
  <2>4. /\ listening' \in Seq(Entry \cup {None}) /\ DOMAIN listening' = DOMAIN listening
        /\ listening'[i] = x /\ \A j \in DOMAIN listening \ {i} : listening'[j] = listening[j]
    BY <2>1, <2>3
  <2>5. busy' \in Waits /\ busy' # None /\ busy'.call = "accept" /\ busy'.proc = p
    BY <1>4, NoneIsNoEntry DEF Waits
  <2>6. NetTypeOK'
    BY <1>1, <1>4, <2>4, <2>5, Zenon DEF NetInv, NetTypeOK
  <2>7. PortInv'
    BY <1>1, <1>2, <1>4, <2>3, <2>4, PortsKept, Zenon DEF NetInv
  <2>8. x.schedule = p
    BY <2>1, <2>2, Zenon DEF Entry
  <2>9. \A j \in DOMAIN listening \ {i} : listening'[j] # None => listening'[j].schedule = None
    BY <1>1, <2>4, NobodyWaits DEF NetInv
  <2>10. CallInv'
    <3>1. ASSUME NEW j \in DOMAIN listening', listening'[j] # None, listening'[j].schedule # None
          PROVE  busy' = [call |-> "accept", proc |-> listening'[j].schedule, idx |-> j]
      <4>1. j = i
        BY <2>4, <2>9, <3>1, Zenon
      <4> QED
        BY <1>4, <2>4, <2>8, <4>1, Zenon
    <3>2. busy'.proc \in DOMAIN fds' /\ Cardinality(DOMAIN file') < MaxFile /\ busy'.call # "read"
      BY <1>1, <2>5
    <3> QED
      BY <3>1, <3>2, Zenon DEF CallInv
  <2> QED
    BY <1>2, <2>6, <2>7, <2>10, Zenon DEF NetInv
<1> QED
  BY <1>3, <1>4, Zenon DEF sys_accept

(* Table u is table t with entry x in slot i, which was in use. *)
ReplacesEntry(S, t, i, x, u) ==
  /\ u \in Seq(S) /\ DOMAIN u = DOMAIN t
  /\ u[i] = x /\ \A j \in DOMAIN t \ {i} : u[j] = t[j]

LEMMA EntryReplaced ==
  ASSUME NEW S, NEW t \in Seq(S), NEW i \in DOMAIN t, NEW x \in S
  PROVE  ReplacesEntry(S, t, i, x, [t EXCEPT ![i] = x])
  BY DEF ReplacesEntry

(* The entry of socket k, and what k is owed, change in the same way to b. *)
LEMMA BufferChanged ==
  ASSUME NetInv, NEW k \in Of("socket"), NEW b \in Seq(Data \cup {Empty}),
         sockets' = [sockets EXCEPT ![file[k].idx].buffers = b],
         owed' \in [DOMAIN file -> Seq(Data \cup {Empty})], owed'[k] = b,
         \A j \in Of("socket") \ {k} : owed'[j] = owed[j],
         listening' = listening, file' = file, fds' = fds, panic' = panic,
         busy' \in {busy, None}
  PROVE  NetTypeOK' /\ SocketInv' /\ PortInv' /\ Of("socket")' = Of("socket")
<1>1. PICK i : i = file[k].idx
  BY Zenon
<1>2. /\ i \in DOMAIN sockets /\ sockets[i] # None /\ sockets[i].conn = file[k].conn
      /\ sockets \in Seq(Socket \cup {None})
  BY <1>1, Zenon DEF NetInv, NetTypeOK, SocketInv
<1>3. PICK x : x = [sockets[i] EXCEPT !.buffers = b]
  BY Zenon
<1>4. sockets' = [sockets EXCEPT ![i] = x]
  BY <1>1, <1>3
<1>5. sockets[i] \in Socket
  BY <1>2
<1>6. x \in Socket /\ x # None /\ x.conn = sockets[i].conn /\ x.buffers = b
  BY <1>3, <1>5, NoneIsNoEntry, Zenon DEF Socket
<1>7. /\ sockets' \in Seq(Socket \cup {None}) /\ DOMAIN sockets' = DOMAIN sockets
      /\ sockets'[i] = x /\ \A j \in DOMAIN sockets \ {i} : sockets'[j] = sockets[j]
  <2>1. x \in Socket \cup {None}
    BY <1>6, Zenon
  <2>2. ReplacesEntry(Socket \cup {None}, sockets, i, x, sockets')
    BY ONLY <1>2, <1>4, <2>1, EntryReplaced, Zenon
  <2> QED
    BY <2>2, Zenon DEF ReplacesEntry
<1>8. NetTypeOK'
  <2>1. busy' \in Waits \cup {None}
    BY Zenon DEF NetInv, NetTypeOK
  <2> QED
    BY <1>7, <2>1, Zenon DEF NetInv, NetTypeOK
<1>9. Of("socket")' = Of("socket") /\ Of("port")' = Of("port")
  BY Zenon DEF Of
<1>10. SocketInv'
  <2>1. ASSUME NEW j \in Of("socket")'
        PROVE  /\ file'[j].idx \in DOMAIN sockets' /\ sockets'[file'[j].idx] # None
               /\ sockets'[file'[j].idx].conn = file'[j].conn
               /\ sockets'[file'[j].idx].buffers = owed'[j]
    <3>1. CASE j = k
      BY <1>1, <1>2, <1>6, <1>7, <3>1, Zenon
    <3>2. CASE j # k
      <4>1. j \in Of("socket") /\ file[j].idx # i
        BY <1>1, <1>9, <2>1, <3>2 DEF NetInv, SocketInv
      <4> QED
        BY <1>7, <3>2, <4>1, Zenon DEF NetInv, SocketInv
    <3> QED
      BY <3>1, <3>2
  <2>2. ASSUME NEW l \in Of("socket")', NEW j \in Of("socket")', file'[l].idx = file'[j].idx
        PROVE  l = j
    BY <1>9, <2>2 DEF NetInv, SocketInv
  <2>3. ASSUME NEW j \in DOMAIN sockets', sockets'[j] # None
        PROVE  \E l \in Of("socket")' : file'[l].idx = j
    BY <1>2, <1>7, <1>9, <2>3, SMTT(30) DEF NetInv, SocketInv
  <2>4. ASSUME NEW l \in DOMAIN sockets', NEW j \in DOMAIN sockets',
               sockets'[l] # None, sockets'[j] # None, sockets'[l].conn = sockets'[j].conn
        PROVE  l = j
    BY <1>2, <1>6, <1>7, <2>4 DEF NetInv, SocketInv
  <2> QED
    BY <2>1, <2>2, <2>3, <2>4, Zenon DEF SocketInv
<1>11. PortInv'
  BY <1>9, PortsKept, Zenon DEF NetInv
<1> QED
  BY <1>8, <1>9, <1>10, <1>11, Zenon

(* pop_data takes the packet that came first for this file. *)
LEMMA PopsStep ==
  ASSUME NetInv, panic = "no", NEW k \in Of("socket"), ~Waiting(k), Pops(k),
         \A i \in DOMAIN listening : listening[i] # None => listening[i].schedule = None
  PROVE  NetInv'
<1>1. /\ k \in DOMAIN file /\ owed \in [DOMAIN file -> Seq(Data \cup {Empty})]
      /\ sockets[file[k].idx].buffers = owed[k]
  BY Zenon DEF NetInv, NetTypeOK, SocketInv, Of
<1>2. owed[k] # <<>> /\ owed[k] \in Seq(Data \cup {Empty})
  BY <1>1, Zenon DEF Waiting
<1>3. PICK b : b = Tail(owed[k])
  BY Zenon
<1>4. b \in Seq(Data \cup {Empty})
  BY <1>2, <1>3
<1>5. /\ sockets' = [sockets EXCEPT ![file[k].idx].buffers = b]
      /\ owed' = [owed EXCEPT ![k] = b]
      /\ busy' = None /\ listening' = listening /\ file' = file /\ fds' = fds /\ panic' = panic
  BY <1>1, <1>3 DEF Pops
<1>6. /\ owed' \in [DOMAIN file -> Seq(Data \cup {Empty})] /\ owed'[k] = b
      /\ \A j \in Of("socket") \ {k} : owed'[j] = owed[j]
  BY <1>1, <1>4, <1>5 DEF Of
<1>7. NetTypeOK' /\ SocketInv' /\ PortInv'
  BY <1>4, <1>5, <1>6, BufferChanged, Zenon
<1>8. CallInv'
  BY <1>5, NoCallRuns, Zenon
<1> QED
  BY <1>7, <1>8, Zenon DEF NetInv

LEMMA ReadStep ==
  ASSUME NetInv, NEW p \in Pid, NEW fd \in 1..MaxFd, sys_read(p, fd)
  PROVE  NetInv'
<1>1. PICK k : k = fds[p][fd]
  BY Zenon
<1>2. /\ panic = "no" /\ busy = None /\ p \in DOMAIN fds /\ fd \in DOMAIN fds[p] /\ k # 0
      /\ file[k].kind = "socket"
  BY <1>1, Zenon DEF sys_read, Calls, IsOpen
<1>3. k \in Of("socket")
  <2>1. fds[p] \in Seq({0} \cup DOMAIN file)
    BY <1>2, Zenon DEF NetInv, NetTypeOK
  <2>2. k \in DOMAIN file
    BY <1>1, <1>2, <2>1
  <2> QED
    BY <1>2, <2>2, Zenon DEF Of
<1>4. CASE ~Waiting(k) /\ Pops(k)
  BY <1>2, <1>3, <1>4, NobodyWaits, PopsStep, Zenon DEF NetInv
<1>5. CASE /\ busy' = [call |-> "read", proc |-> p, idx |-> k]
           /\ UNCHANGED <<listening, sockets, file, fds, panic, owed>>
  <2>1. /\ listening' = listening /\ sockets' = sockets /\ file' = file /\ fds' = fds
        /\ panic' = panic /\ owed' = owed
    BY <1>5, Zenon
  <2>2. k \in Nat
    BY <1>3 DEF NetInv, NetTypeOK, Of, File
  <2>3. busy' \in Waits /\ busy'.call = "read" /\ busy'.idx = k
    BY <1>5, <2>2 DEF Waits
  <2>4. Of("socket")' = Of("socket") /\ Of("port")' = Of("port")
    BY <2>1, Zenon DEF Of
  <2>5. NetTypeOK'
    BY <2>1, <2>3, Zenon DEF NetInv, NetTypeOK
  <2>6. SocketInv' /\ PortInv'
    BY <2>1, <2>4, SocketsKept, PortsKept, Zenon DEF NetInv
  <2>7. CallInv'
    <3>1. \A i \in DOMAIN listening' : listening'[i] # None => listening'[i].schedule = None
      BY <1>2, <2>1, NobodyWaits, Zenon DEF NetInv
    <3>2. busy'.call # "accept" /\ busy'.idx \in Of("socket")'
      BY <1>3, <2>3, <2>4, Zenon
    <3> QED
      BY <3>1, <3>2, Zenon DEF CallInv
  <2> QED
    BY <2>5, <2>6, <2>7, Zenon DEF NetInv
<1> QED
  BY <1>1, <1>4, <1>5, Zenon DEF sys_read

(* While a read waits, nobody waits at a port. *)
LEMMA ReaderAlone ==
  ASSUME NetInv, panic = "no", busy # None, busy.call = "read"
  PROVE  \A i \in DOMAIN listening : listening[i] # None => listening[i].schedule = None
  BY DEF NetInv, CallInv

LEMMA ReadReturnsStep ==
  ASSUME NetInv, ReadReturns
  PROVE  NetInv'
<1>1. panic = "no" /\ busy # None /\ busy.call = "read" /\ busy.idx \in Of("socket")
      /\ ~Waiting(busy.idx) /\ Pops(busy.idx)
  BY Zenon DEF ReadReturns, NetInv, CallInv
<1> QED
  BY <1>1, ReaderAlone, PopsStep, Zenon

(* The accept that waits gets the connection: nobody waits anywhere then. *)
LEMMA ReceiveSynStep ==
  ASSUME NetInv, NEW pk \in Syn, ReceiveSyn(pk)
  PROVE  NetInv'
<1>1. PICK i \in Taker(pk.conn[2]) :
        /\ listening' = [listening EXCEPT ![i].receivable = FALSE, ![i].schedule = None]
        /\ AddSocket(listening[i].schedule, pk.conn)
        /\ busy' = IF busy.call = "accept" /\ ~listening'[busy.idx].receivable
                   THEN None ELSE busy
  BY Zenon DEF ReceiveSyn
<1>2. /\ i \in DOMAIN listening /\ listening[i] # None /\ listening[i].schedule # None
      /\ panic = "no"
  BY Zenon DEF Taker, Acceptable, ReceiveSyn, Polls
<1>3. busy = [call |-> "accept", proc |-> listening[i].schedule, idx |-> i]
  BY <1>2, Zenon DEF NetInv, CallInv
<1>4. listening \in Seq(Entry \cup {None}) /\ listening[i] \in Entry
  BY <1>2 DEF NetInv, NetTypeOK
<1>5. PICK x : x = [listening[i] EXCEPT !.receivable = FALSE, !.schedule = None]
  BY Zenon
<1>6. x \in Entry /\ x # None /\ x.receivable = FALSE /\ x.schedule = None
  BY <1>4, <1>5, NoneIsNoEntry, Zenon DEF Entry
<1>7. listening' = [listening EXCEPT ![i] = x]
  BY <1>1, <1>2, <1>4, <1>5, Zenon
<1>8. /\ listening' \in Seq(Entry \cup {None}) /\ DOMAIN listening' = DOMAIN listening
      /\ listening'[i] = x /\ \A j \in DOMAIN listening \ {i} : listening'[j] = listening[j]
  <2>1. x \in Entry \cup {None}
    BY <1>6, Zenon
  <2>2. ReplacesEntry(Entry \cup {None}, listening, i, x, listening')
    BY <1>2, <1>4, <1>7, <2>1, EntryReplaced, ZenonT(30)
  <2> QED
    BY <2>2, Zenon DEF ReplacesEntry
<1>9. busy.call = "accept" /\ busy.proc = listening[i].schedule /\ busy.idx = i /\ busy # None
  <2>1. i \in Nat /\ listening[i].schedule \in Pid
    BY <1>2, <1>4, SMTT(30) DEF Entry
  <2>2. busy \in Waits
    BY <1>3, <2>1 DEF Waits
  <2> QED
    BY <1>3, <2>2, NoneIsNoEntry, Zenon
<1>10. busy' = None
  BY <1>1, <1>6, <1>8, <1>9
<1>11. listening[i].schedule \in DOMAIN fds /\ Cardinality(DOMAIN file) < MaxFile /\ pk.conn \in Conn
  <2>1. pk.conn \in Conn
    BY DEF Syn
  <2> QED
    BY <1>2, <1>9, <2>1, Zenon DEF NetInv, CallInv
<1>12. /\ sockets' \in Seq(Socket \cup {None}) /\ SocketInv'
       /\ DOMAIN file' \subseteq File /\ file' \in [DOMAIN file' -> OpenFile]
       /\ owed' \in [DOMAIN file' -> Seq(Data \cup {Empty})]
       /\ DOMAIN fds' \subseteq Pid /\ fds' \in [DOMAIN fds' -> Seq({0} \cup DOMAIN file')]
       /\ panic' \in {panic, "socket_exists"}
       /\ Of("port")' = Of("port") /\ \A k \in Of("port") : file'[k] = file[k]
  BY <1>1, <1>11, AddSocketKeeps, Zenon DEF NetInv
<1>13. NetTypeOK'
  <2>1. busy' \in Waits \cup {None} /\ panic' \in {"no", "socket_exists", "no_such_port"}
    BY <1>2, <1>10, <1>12
  <2> QED
    BY <1>8, <1>12, <2>1, Zenon DEF NetTypeOK
<1>14. PortInv'
  <2>1. \A j \in DOMAIN listening : listening'[j] # None <=> listening[j] # None
    BY <1>2, <1>6, <1>8
  <2> QED
    BY <1>8, <1>12, <2>1, PortsKept, Zenon DEF NetInv
<1>15. CallInv'
  <2>1. ASSUME NEW j \in DOMAIN listening', listening'[j] # None
        PROVE  listening'[j].schedule = None
    <3>1. CASE j = i
      BY <1>6, <1>8, <3>1, Zenon
    <3>2. CASE j # i
      <4>1. listening'[j] = listening[j] /\ j \in DOMAIN listening
        BY <1>8, <3>2, Zenon
      <4> QED
        BY <1>2, <1>9, <2>1, <3>2, <4>1 DEF NetInv, CallInv
    <3> QED
      BY <3>1, <3>2, Zenon
  <2> QED
    BY <1>10, <2>1, NoCallRuns, Zenon
<1> QED
  BY <1>12, <1>13, <1>14, <1>15, Zenon DEF NetInv

(* A packet goes to the one entry of its connection, and to its file. *)
LEMMA ReceiveDataStep ==
  ASSUME NetInv, NEW pk \in Packet, pk.kind = "data", ReceiveData(pk)
  PROVE  NetInv'
<1>1. PICK i \in GetSocket(pk.conn) :
        sockets' = [sockets EXCEPT ![i].buffers = Append(@, pk.data)]
  BY Zenon DEF ReceiveData, PushData
<1>2. i \in DOMAIN sockets /\ sockets[i] # None /\ sockets[i].conn = pk.conn
  BY Zenon DEF GetSocket
<1>3. PICK k \in Of("socket") : file[k].idx = i
  BY <1>2, Zenon DEF NetInv, SocketInv
<1>4. /\ owed \in [DOMAIN file -> Seq(Data \cup {Empty})] /\ k \in DOMAIN file
      /\ owed[k] = sockets[i].buffers /\ file[k].conn = pk.conn
  BY <1>2, <1>3, Zenon DEF NetInv, NetTypeOK, SocketInv, Of
<1>5. pk.data \in Data \cup {Empty}
  BY DEF Packet, Syn
<1>6. PICK b : b = Append(owed[k], pk.data)
  BY Zenon
<1>7. b \in Seq(Data \cup {Empty})
  BY <1>4, <1>5, <1>6
<1>8. sockets' = [sockets EXCEPT ![file[k].idx].buffers = b]
  BY <1>1, <1>3, <1>4, <1>6
<1>9. owed' = [j \in DOMAIN owed |-> IF file[j].conn = pk.conn
                                     THEN Append(owed[j], pk.data) ELSE owed[j]]
  BY Zenon DEF ReceiveData
<1>10. owed' \in [DOMAIN file -> Seq(Data \cup {Empty})] /\ owed'[k] = b
  <2>1. ASSUME NEW j \in DOMAIN file
        PROVE  Append(owed[j], pk.data) \in Seq(Data \cup {Empty})
    BY <1>4, <1>5
  <2> QED
    BY <1>4, <1>6, <1>9, <2>1, Zenon
<1>11. ASSUME NEW j \in Of("socket"), j # k
       PROVE  owed'[j] = owed[j]
  <2>1. j \in DOMAIN file
    BY ZenonT(30) DEF Of
  <2>2. file[j].conn # pk.conn
    BY <1>2, <1>3, <1>11 DEF NetInv, SocketInv
  <2> QED
    BY <1>4, <1>9, <2>1, <2>2
<1>12. listening' = listening /\ file' = file /\ fds' = fds /\ panic' = panic /\ busy' = busy
  BY Zenon DEF ReceiveData
<1>13. NetTypeOK' /\ SocketInv' /\ PortInv' /\ Of("socket")' = Of("socket")
  BY <1>7, <1>8, <1>10, <1>11, <1>12, BufferChanged, Zenon
<1>14. CallInv'
  BY <1>12, <1>13, CallKept, Zenon DEF NetInv
<1> QED
  BY <1>13, <1>14, Zenon DEF NetInv

(* Clearing entries leaves a table. *)
LEMMA TableThinned ==
  ASSUME NEW S, NEW t \in Seq(S), NEW u, NEW e \in S, DOMAIN u = DOMAIN t,
         u = [i \in DOMAIN u |-> u[i]], \A i \in DOMAIN t : u[i] = e \/ u[i] = t[i]
  PROVE  u \in Seq(S)
<1>1. \A i \in 1..Len(t) : u[i] \in S
  OBVIOUS
<1>2. u \in [1..Len(t) -> S]
  BY <1>1
<1> QED
  BY <1>2

(* An entry goes with its file and no other. *)
LEMMA DropsStep ==
  ASSUME NetInv, panic = "no", busy = None, NEW f, DOMAIN f \subseteq Pid,
         f \in [DOMAIN f -> Seq({0} \cup DOMAIN file)], Drops(f)
  PROVE  NetInv'
<1>1. PICK H : H = Held(f)
  BY Zenon
<1>2. H \subseteq DOMAIN file
  BY <1>1, Zenon DEF Held
<1>3. /\ fds' = f /\ busy' = None /\ panic' = "no"
      /\ file' = [k \in H |-> file[k]] /\ owed' = [k \in H |-> owed[k]]
      /\ sockets' = [i \in DOMAIN sockets |->
                       IF Dropped("socket", f, i) THEN None ELSE sockets[i]]
      /\ listening' = [i \in DOMAIN listening |->
                         IF Dropped("port", f, i) THEN None ELSE listening[i]]
  BY <1>1, Zenon DEF Drops
<1>4. /\ \A i : Dropped("socket", f, i) <=> \E k \in Of("socket") \ H : file[k].idx = i
      /\ \A i : Dropped("port", f, i) <=> \E k \in Of("port") \ H : file[k].idx = i
  BY <1>1, Zenon DEF Dropped, Of
<1>5. /\ Of("socket")' = Of("socket") \cap H /\ Of("port")' = Of("port") \cap H
      /\ \A k \in H : file'[k] = file[k] /\ owed'[k] = owed[k]
      /\ DOMAIN file' = H
  BY <1>2, <1>3, Zenon DEF Of
<1>6. /\ DOMAIN file' \subseteq File /\ file' \in [DOMAIN file' -> OpenFile]
      /\ owed' \in [DOMAIN file' -> Seq(Data \cup {Empty})]
  BY <1>2, <1>3, Zenon DEF NetInv, NetTypeOK
<1>7. fds' \in [DOMAIN fds' -> Seq({0} \cup DOMAIN file')]
  <2>1. ASSUME NEW p \in DOMAIN f
        PROVE  f[p] \in Seq({0} \cup H)
    <3>1. PICK t : t = f[p]
      BY Zenon
    <3>2. t \in Seq({0} \cup DOMAIN file)
      BY <3>1, Zenon
    <3>3. ASSUME NEW j \in DOMAIN t
          PROVE  t[j] \in {0} \cup H
      <4>1. t[j] \in {0} \cup DOMAIN file
        BY <3>2
      <4>2. t[j] \in Range(t)
        BY Zenon DEF Range
      <4> QED
        BY <1>1, <3>1, <4>1, <4>2, Zenon DEF Held
    <3>4. t \in Seq({0} \cup H)
      <4>1. PICK T : T = {0} \cup H
        BY Zenon
      <4>2. \A j \in DOMAIN t : t[j] \in T
        BY <3>3, <4>1, Zenon
      <4>3. t \in Seq(T)
        BY <3>2, <4>2
      <4> QED
        BY <4>1, <4>3
    <3> QED
      BY <3>1, <3>4, Zenon
  <2> QED
    BY <1>3, <1>5, <2>1
<1>8. /\ DOMAIN sockets' = DOMAIN sockets /\ DOMAIN listening' = DOMAIN listening
      /\ \A i \in DOMAIN sockets : sockets'[i] # None => sockets'[i] = sockets[i]
      /\ \A i \in DOMAIN listening : listening'[i] # None => listening'[i] = listening[i]
      /\ \A i \in DOMAIN sockets :
            ~Dropped("socket", f, i) => sockets'[i] = sockets[i]
      /\ \A i \in DOMAIN listening :
            ~Dropped("port", f, i) => listening'[i] = listening[i]
      /\ \A i \in DOMAIN sockets : Dropped("socket", f, i) => sockets'[i] = None
      /\ \A i \in DOMAIN listening : Dropped("port", f, i) => listening'[i] = None
  BY <1>3
<1>9. sockets' \in Seq(Socket \cup {None}) /\ listening' \in Seq(Entry \cup {None})
  <2>1. /\ sockets' = [i \in DOMAIN sockets' |-> sockets'[i]]
        /\ listening' = [i \in DOMAIN listening' |-> listening'[i]]
    BY <1>3
  <2>2. /\ sockets \in Seq(Socket \cup {None}) /\ None \in Socket \cup {None}
        /\ listening \in Seq(Entry \cup {None}) /\ None \in Entry \cup {None}
    BY Zenon DEF NetInv, NetTypeOK
  <2>3. sockets' \in Seq(Socket \cup {None})
    <3>1. /\ DOMAIN sockets' = DOMAIN sockets
          /\ \A i \in DOMAIN sockets : sockets'[i] = None \/ sockets'[i] = sockets[i]
      BY <1>8, Zenon
    <3> QED
      BY ONLY <2>1, <2>2, <3>1, TableThinned, Zenon
  <2>4. listening' \in Seq(Entry \cup {None})
    <3>1. /\ DOMAIN listening' = DOMAIN listening
          /\ \A i \in DOMAIN listening : listening'[i] = None \/ listening'[i] = listening[i]
      BY <1>8, Zenon
    <3> QED
      BY ONLY <2>1, <2>2, <3>1, TableThinned, ZenonT(30)
  <2> QED
    BY <2>3, <2>4, Zenon
<1>10. NetTypeOK'
  BY <1>3, <1>6, <1>7, <1>9, Zenon DEF NetTypeOK
<1>11. SocketInv'
  <2>1. ASSUME NEW k \in Of("socket")'
        PROVE  /\ file'[k].idx \in DOMAIN sockets' /\ sockets'[file'[k].idx] # None
               /\ sockets'[file'[k].idx].conn = file'[k].conn
               /\ sockets'[file'[k].idx].buffers = owed'[k]
    <3>1. k \in Of("socket") /\ k \in H
      BY <1>5, <2>1, Zenon
    <3>2. ~Dropped("socket", f, file[k].idx)
      BY <1>4, <3>1 DEF NetInv, SocketInv
    <3> QED
      BY <1>5, <1>8, <3>1, <3>2 DEF NetInv, SocketInv
  <2>2. ASSUME NEW k \in Of("socket")', NEW j \in Of("socket")', file'[k].idx = file'[j].idx
        PROVE  k = j
    BY <1>5, <2>2, Zenon DEF NetInv, SocketInv
  <2>3. ASSUME NEW i \in DOMAIN sockets', sockets'[i] # None
        PROVE  \E k \in Of("socket")' : file'[k].idx = i
    <3>1. i \in DOMAIN sockets /\ sockets[i] # None /\ ~Dropped("socket", f, i)
      BY <1>8, <2>3
    <3>2. PICK k \in Of("socket") : file[k].idx = i
      BY <3>1, Zenon DEF NetInv, SocketInv
    <3>3. k \in H
      BY <1>4, <3>1, <3>2, ZenonT(30)
    <3> QED
      BY <1>5, <3>2, <3>3, Zenon
  <2>4. ASSUME NEW i \in DOMAIN sockets', NEW j \in DOMAIN sockets',
               sockets'[i] # None, sockets'[j] # None, sockets'[i].conn = sockets'[j].conn
        PROVE  i = j
    BY <1>8, <2>4 DEF NetInv, SocketInv
  <2> QED
    BY <2>1, <2>2, <2>3, <2>4, ZenonT(30) DEF SocketInv
<1>12. PortInv'
  <2>1. ASSUME NEW k \in Of("port")'
        PROVE  file'[k].idx \in DOMAIN listening' /\ listening'[file'[k].idx] # None
    <3>1. k \in Of("port") /\ k \in H
      BY <1>5, <2>1, Zenon
    <3>2. ~Dropped("port", f, file[k].idx)
      BY <1>4, <3>1 DEF NetInv, PortInv
    <3> QED
      BY <1>5, <1>8, <3>1, <3>2 DEF NetInv, PortInv
  <2>2. ASSUME NEW k \in Of("port")', NEW j \in Of("port")', file'[k].idx = file'[j].idx
        PROVE  k = j
    BY <1>5, <2>2, Zenon DEF NetInv, PortInv
  <2>3. ASSUME NEW i \in DOMAIN listening', listening'[i] # None
        PROVE  \E k \in Of("port")' : file'[k].idx = i
    <3>1. i \in DOMAIN listening /\ listening[i] # None /\ ~Dropped("port", f, i)
      BY <1>8, <2>3
    <3>2. PICK k \in Of("port") : file[k].idx = i
      BY <3>1, Zenon DEF NetInv, PortInv
    <3>3. k \in H
      BY <1>4, <3>1, <3>2, Zenon
    <3> QED
      BY <1>5, <3>2, <3>3, Zenon
  <2> QED
    BY <2>1, <2>2, <2>3, ZenonT(30) DEF PortInv
<1>13. CallInv'
  <2>1. \A i \in DOMAIN listening : listening[i] # None => listening[i].schedule = None
    BY NobodyWaits, Zenon DEF NetInv
  <2>2. \A i \in DOMAIN listening' : listening'[i] # None => listening'[i].schedule = None
    BY <1>8, <2>1
  <2> QED
    BY <1>3, <2>2, NoCallRuns, Zenon
<1> QED
  BY <1>10, <1>11, <1>12, <1>13, Zenon DEF NetInv

LEMMA CloseStep ==
  ASSUME NetInv, NEW p \in Pid, NEW fd \in 1..MaxFd, sys_close(p, fd)
  PROVE  NetInv'
<1>1. /\ panic = "no" /\ busy = None /\ p \in DOMAIN fds /\ fd \in DOMAIN fds[p]
      /\ Drops([fds EXCEPT ![p][fd] = 0])
  BY Zenon DEF sys_close, Calls, IsOpen
<1>2. PICK f : f = [fds EXCEPT ![p][fd] = 0]
  BY Zenon
<1>3. DOMAIN fds \subseteq Pid /\ fds \in [DOMAIN fds -> Seq({0} \cup DOMAIN file)]
  BY Zenon DEF NetInv, NetTypeOK
<1>4. [fds[p] EXCEPT ![fd] = 0] \in Seq({0} \cup DOMAIN file)
  <2>1. fds[p] \in Seq({0} \cup DOMAIN file) /\ 0 \in {0} \cup DOMAIN file
    BY <1>1, <1>3, Zenon
  <2> QED
    BY <1>1, <2>1, EntryReplaced, Zenon DEF ReplacesEntry
<1>5. DOMAIN f = DOMAIN fds /\ f \in [DOMAIN f -> Seq({0} \cup DOMAIN file)]
  BY <1>1, <1>2, <1>3, <1>4
<1> QED
  BY <1>1, <1>2, <1>3, <1>5, DropsStep, Zenon

LEMMA ExitStep ==
  ASSUME NetInv, NEW p \in Pid, exit_process(p)
  PROVE  NetInv'
<1>1. panic = "no" /\ busy = None /\ Drops([q \in DOMAIN fds \ {p} |-> fds[q]])
  BY Zenon DEF exit_process, Calls
<1>2. PICK f : f = [q \in DOMAIN fds \ {p} |-> fds[q]]
  BY Zenon
<1>3. DOMAIN fds \subseteq Pid /\ fds \in [DOMAIN fds -> Seq({0} \cup DOMAIN file)]
  BY Zenon DEF NetInv, NetTypeOK
<1>4. DOMAIN f \subseteq Pid /\ f \in [DOMAIN f -> Seq({0} \cup DOMAIN file)]
  BY <1>2, <1>3
<1> QED
  BY <1>1, <1>2, <1>4, DropsStep, Zenon

(* A step that changes the descriptors and nothing else. *)
LEMMA DescriptorsChange ==
  ASSUME NetInv, panic = "no", busy = None, DOMAIN fds' \subseteq Pid,
         fds' \in [DOMAIN fds' -> Seq({0} \cup DOMAIN file)],
         UNCHANGED <<listening, sockets, file, busy, panic, owed>>
  PROVE  NetInv'
<1>1. /\ listening' = listening /\ sockets' = sockets /\ file' = file /\ busy' = busy
      /\ panic' = panic /\ owed' = owed
  BY Zenon
<1>2. NetTypeOK'
  BY <1>1, Zenon DEF NetInv, NetTypeOK
<1>3. Of("socket")' = Of("socket") /\ Of("port")' = Of("port")
  BY <1>1, Zenon DEF Of
<1>4. SocketInv' /\ PortInv'
  BY <1>1, <1>3, SocketsKept, PortsKept, Zenon DEF NetInv
<1>5. CallInv'
  <2>1. \A i \in DOMAIN listening' : listening'[i] # None => listening'[i].schedule = None
    BY <1>1, NobodyWaits, Zenon DEF NetInv
  <2> QED
    BY <1>1, <2>1, NoCallRuns, Zenon
<1> QED
  BY <1>2, <1>4, <1>5, Zenon DEF NetInv

LEMMA DupStep ==
  ASSUME NetInv, NEW p \in Pid, NEW fd \in 1..MaxFd, sys_dup(p, fd)
  PROVE  NetInv'
<1>1. PICK k : k = fds[p][fd]
  BY Zenon
<1>2. /\ panic = "no" /\ busy = None /\ p \in DOMAIN fds /\ fd \in DOMAIN fds[p]
      /\ fds' = [fds EXCEPT ![p] = Put(@, Slot(@, 0), k)]
      /\ UNCHANGED <<listening, sockets, file, busy, panic, owed>>
  BY <1>1, Zenon DEF sys_dup, Calls, IsOpen, Given
<1>3. DOMAIN fds \subseteq Pid /\ fds \in [DOMAIN fds -> Seq({0} \cup DOMAIN file)]
  BY Zenon DEF NetInv, NetTypeOK
<1>4. PICK T : T = {0} \cup DOMAIN file
  BY Zenon
<1>5. fds[p] \in Seq(T) /\ k \in T
  BY <1>1, <1>2, <1>3, <1>4
<1>6. Put(fds[p], Slot(fds[p], 0), k) \in Seq(T)
  BY <1>5, EntryAdded, Zenon DEF AddsEntry
<1>7. DOMAIN fds' = DOMAIN fds /\ fds' \in [DOMAIN fds' -> Seq(T)]
  BY <1>2, <1>3, <1>4, <1>6
<1> QED
  BY <1>2, <1>3, <1>4, <1>7, DescriptorsChange, Zenon

LEMMA ForkStep ==
  ASSUME NetInv, NEW p \in Pid, NEW q \in Pid, sys_fork(p, q)
  PROVE  NetInv'
<1>1. /\ panic = "no" /\ busy = None /\ p \in DOMAIN fds
      /\ fds' = [j \in DOMAIN fds \cup {q} |-> IF j = q THEN fds[p] ELSE fds[j]]
      /\ UNCHANGED <<listening, sockets, file, busy, panic, owed>>
  BY Zenon DEF sys_fork, Calls, Added
<1>2. DOMAIN fds \subseteq Pid /\ fds \in [DOMAIN fds -> Seq({0} \cup DOMAIN file)]
  BY Zenon DEF NetInv, NetTypeOK
<1>3. DOMAIN fds' \subseteq Pid /\ fds' \in [DOMAIN fds' -> Seq({0} \cup DOMAIN file)]
  BY <1>1, <1>2
<1> QED
  BY <1>1, <1>3, DescriptorsChange, Zenon

LEMMA NetStarts ==
  ASSUME NetInit
  PROVE  NetInv
<1>1. /\ listening = <<>> /\ sockets = <<>> /\ file = <<>> /\ owed = <<>>
      /\ fds = [p \in {FIRST} |-> <<>>] /\ busy = None /\ panic = "no"
  BY Zenon DEF NetInit
<1>2. NetTypeOK
  <2>1. DOMAIN file \subseteq File /\ file \in [DOMAIN file -> OpenFile]
        /\ owed \in [DOMAIN file -> Seq(Data \cup {Empty})]
    BY <1>1
  <2>2. listening \in Seq(Entry \cup {None}) /\ sockets \in Seq(Socket \cup {None})
    BY <1>1
  <2>3. DOMAIN fds \subseteq Pid /\ fds \in [DOMAIN fds -> Seq({0} \cup DOMAIN file)]
    BY <1>1, NetAssumption
  <2> QED
    BY <1>1, <2>1, <2>2, <2>3, Zenon DEF NetTypeOK
<1>3. Of("socket") = {} /\ Of("port") = {}
  BY <1>1 DEF Of
<1>4. SocketInv /\ PortInv
  BY <1>1, <1>3 DEF SocketInv, PortInv
<1>5. CallInv
  BY <1>1 DEF CallInv
<1> QED
  BY <1>2, <1>4, <1>5, Zenon DEF NetInv

LEMMA NetKept ==
  ASSUME NetInv, NetNext
  PROVE  NetInv'
<1>1. CASE \E p \in Pid : \/ \E c \in Conn : sys_connect(p, c)
                          \/ \E port \in Port : sys_listen(p, port)
                          \/ \E i \in 1..MaxPort : sys_accept(p, i)
                          \/ \E fd \in 1..MaxFd : sys_read(p, fd)
  BY <1>1, ConnectStep, ListenStep, AcceptStep, ReadStep, Zenon
<1>2. CASE \E p \in Pid : \/ \E fd \in 1..MaxFd : sys_close(p, fd) \/ sys_dup(p, fd)
                          \/ exit_process(p)
                          \/ \E q \in Pid : sys_fork(p, q)
  BY <1>2, CloseStep, DupStep, ExitStep, ForkStep, Zenon
<1>3. CASE ReadReturns
  BY <1>3, ReadReturnsStep, Zenon
<1>4. ASSUME NEW pk \in Packet, pk.kind = "syn", ReceiveSyn(pk)
      PROVE  NetInv'
  <2>1. pk \in Syn
    BY <1>4 DEF Packet
  <2> QED
    BY <1>4, <2>1, ReceiveSynStep, Zenon
<1>5. ASSUME NEW pk \in Packet, pk.kind = "data", ReceiveData(pk)
      PROVE  NetInv'
  BY <1>5, ReceiveDataStep, Zenon
<1> QED
  BY <1>1, <1>2, <1>3, <1>4, <1>5, Zenon DEF NetNext

LEMMA NetInvHolds == NetSpec => []NetInv
<1>1. NetInit => NetInv
  BY NetStarts
<1>2. NetInv /\ [NetNext]_net_vars => NetInv'
  <2> SUFFICES ASSUME NetInv, [NetNext]_net_vars PROVE NetInv'
    BY Zenon
  <2>1. CASE UNCHANGED net_vars
    BY <2>1 DEF net_vars, NetInv, NetTypeOK, SocketInv, PortInv, CallInv, Of
  <2> QED
    BY <2>1, NetKept, Zenon
<1> QED
  BY <1>1, <1>2, PTL DEF NetSpec
-----------------------------------------------------------------------------
(* What the invariant says *)

(* PortFd, TCP and UDP hold bare indices: whatever files are opened, shared   *)
(* and dropped and whatever packets come, every entry of the two tables in    *)
(* use belongs to exactly one open file, no two sockets have the same         *)
(* connection, and a task waits at a port only while its accept runs.         *)
THEOREM SocketsAlwaysOwned == NetSpec => []SocketsOwned
<1>1. NetInv => SocketsOwned
  <2> SUFFICES ASSUME NetInv PROVE SocketsOwned
    BY Zenon
  <2>1. ASSUME NEW i \in DOMAIN sockets
        PROVE  Cardinality({k \in Of("socket") : file[k].idx = i})
                 = (IF sockets[i] = None THEN 0 ELSE 1)
    <3>1. CASE sockets[i] = None
      <4>1. {k \in Of("socket") : file[k].idx = i} = {}
        BY <3>1 DEF NetInv, SocketInv
      <4> QED
        BY <3>1, <4>1, FS_EmptySet, Zenon
    <3>2. CASE sockets[i] # None
      <4>1. PICK k \in Of("socket") : file[k].idx = i
        BY <3>2, Zenon DEF NetInv, SocketInv
      <4>2. {j \in Of("socket") : file[j].idx = i} = {k}
        BY <4>1 DEF NetInv, SocketInv
      <4> QED
        BY <3>2, <4>2, FS_Singleton, Zenon
    <3> QED
      BY <3>1, <3>2
  <2>2. ASSUME NEW i \in DOMAIN listening
        PROVE  Cardinality({k \in Of("port") : file[k].idx = i})
                 = (IF listening[i] = None THEN 0 ELSE 1)
    <3>1. CASE listening[i] = None
      <4>1. {k \in Of("port") : file[k].idx = i} = {}
        BY <3>1 DEF NetInv, PortInv
      <4> QED
        BY <3>1, <4>1, FS_EmptySet, Zenon
    <3>2. CASE listening[i] # None
      <4>1. PICK k \in Of("port") : file[k].idx = i
        BY <3>2, Zenon DEF NetInv, PortInv
      <4>2. {j \in Of("port") : file[j].idx = i} = {k}
        BY <4>1, SMTT(30) DEF NetInv, PortInv
      <4> QED
        BY <3>2, <4>2, FS_Singleton, Zenon
    <3> QED
      BY <3>1, <3>2, Zenon
  <2>3. ASSUME NEW k \in Of("socket")
        PROVE  /\ sockets[file[k].idx].conn = file[k].conn
               /\ GetSocket(file[k].conn) = {file[k].idx}
    BY DEF NetInv, SocketInv, GetSocket
  <2>4. \A i \in DOMAIN listening :
          panic = "no" /\ listening[i] # None /\ listening[i].schedule # None =>
            busy = [call |-> "accept", proc |-> listening[i].schedule, idx |-> i]
    BY Zenon DEF NetInv, CallInv
  <2> QED
    BY <2>1, <2>2, <2>3, <2>4, Zenon DEF SocketsOwned, NetInv
<1> QED
  BY <1>1, NetInvHolds, PTL

(* push_data and pop_data work on table slots which are used again: every     *)
(* socket file reads the packets that came for its connection while it was    *)
(* open, each once, in the order of arrival, and no others.                   *)
THEOREM DataAlwaysDelivered == NetSpec => []DataDelivered
<1>1. NetInv => DataDelivered
  BY Zenon DEF NetInv, SocketInv, DataDelivered
<1> QED
  BY <1>1, NetInvHolds, PTL
=============================================================================
