------------------------------- MODULE Signals -------------------------------
(***************************************************************************)
(* The signals of one process: sys_kill, the faults, sys_sigaction,        *)
(* sys_sigprocmask, sys_sigreturn (os/src/syscall/process.rs) and what     *)
(* every trap does on its way out, current_handle_signals and the check    *)
(* for error signals (os/src/task/mod.rs, os/src/trap/mod.rs).             *)
(*                                                                         *)
(* The pending set belongs to the process; mask, actions, the signal being *)
(* handled, frozen, killed and the saved trap context belong to a thread.  *)
(* The kernel is not preemptive and no interrupt touches this state, so a  *)
(* system call and one pass of check_pending_signals are single steps.     *)
(***************************************************************************)
EXTENDS Integers, Sequences, FiniteSets, FiniteSetsExt

CONSTANTS
  Thread,        \* the threads the process may ever have
  MAIN,          \* the thread with tid 0, which is the process
  NONE,          \* Option::None
  PANIC,         \* the value of running once the kernel has panicked
  KillArg,       \* the signum arguments of sys_kill
  ActionArg,     \* the signum arguments of sys_sigaction
  ActionGiven,   \* the actions that a thread passes to sys_sigaction
  ProcMask,      \* the masks that a thread passes to sys_sigprocmask
  MaxSent        \* bound: how often a signal is accepted

SIGDEF == 0
SIGKILL == 9
SIGSEGV == 11
SIGCONT == 18
SIGSTOP == 19

(* 1 << signum keeps five bits of signum; all 32 flags are defined. *)
Flag(signum) == signum % 32

Signal == {Flag(n) : n \in KillArg \cup ActionArg} \cup {SIGSEGV}
KernelSignal == {SIGDEF, SIGKILL, SIGCONT, SIGSTOP}
UserSignal == Signal \ KernelSignal

(* What check_error looks for: SIGINT, SIGILL, SIGABRT, SIGFPE, SIGKILL    *)
(* and SIGSEGV.                                                            *)
ErrorSignal == {2, 4, 6, 8, SIGKILL, SIGSEGV}

ASSUME SignalsAssumption ==
  /\ MAIN \in Thread
  /\ KillArg \subseteq Nat
  /\ ActionArg \subseteq Nat
  /\ NONE \notin Nat
  /\ NONE \notin Seq(UserSignal)
  /\ PANIC \notin Thread \cup {NONE}
  /\ ActionGiven \in [Thread -> SUBSET [handler : BOOLEAN, mask : SUBSET Signal]]
  /\ ProcMask \in [Thread -> SUBSET SUBSET Signal]
  /\ MaxSent \in [Signal -> Nat]

VARIABLES
  signals,          \* ProcessControlBlockInner::signals
  signal_handling,  \* SignalProcessor, by thread
  signal_mask,
  signal_actions,
  killed,
  frozen,
  trap_cx_backup,
  trap_cx,          \* the trap context: the handlers the thread is in
  pc,               \* "user", "trap" (on the way out of a trap), ...
  running,          \* the thread that is in the kernel and did not suspend
  nested,           \* history: a handler was entered that the mask of the
                    \* action in progress let through
  sent,             \* history: how often a signal became pending
  taken             \* history: how often it was acted upon and cleared

thread_vars == <<signal_handling, signal_mask, signal_actions, killed, frozen,
                 trap_cx_backup, trap_cx, nested>>
hist_vars == <<sent, taken>>
vars == <<signals, thread_vars, pc, running, hist_vars>>

(* handler: is the address other than 0. *)
Action == [handler : BOOLEAN, mask : SUBSET Signal]

(* A context is the sequence of the handlers that were entered and not     *)
(* left, innermost last; the main program is the empty one.                *)
Context == Seq(UserSignal)

TypeOK ==
  /\ signals \in SUBSET Signal
  /\ signal_handling \in [Thread -> UserSignal \cup {NONE}]
  /\ signal_mask \in [Thread -> SUBSET Signal]
  /\ signal_actions \in [Thread -> [Signal -> Action]]
  /\ killed \in [Thread -> BOOLEAN]
  /\ frozen \in [Thread -> BOOLEAN]
  /\ DOMAIN trap_cx_backup = Thread
  /\ \A t \in Thread : trap_cx_backup[t] = NONE \/ trap_cx_backup[t] \in Context
  /\ trap_cx \in [Thread -> Context]
  /\ pc \in [Thread -> {"unborn", "user", "trap", "gone"}]
  /\ running \in Thread \cup {NONE, PANIC}
  /\ nested \in [Thread -> BOOLEAN]
  /\ sent \in [Signal -> Nat]
  /\ taken \in [Signal -> Nat]

(* SignalAction::default: no handler, mask 40. *)
DefaultAction == [handler |-> FALSE, mask |-> Signal \cap {3, 5}]

Init ==
  /\ signals = {}
  /\ signal_handling = [t \in Thread |-> NONE]
  /\ signal_mask = [t \in Thread |-> {}]
  /\ signal_actions = [t \in Thread |-> [s \in Signal |-> DefaultAction]]
  /\ killed = [t \in Thread |-> FALSE]
  /\ frozen = [t \in Thread |-> FALSE]
  /\ trap_cx_backup = [t \in Thread |-> NONE]
  /\ trap_cx = [t \in Thread |-> <<>>]
  /\ pc = [t \in Thread |-> IF t = MAIN THEN "user" ELSE "unborn"]
  /\ running = NONE
  /\ nested = [t \in Thread |-> FALSE]
  /\ sent = [s \in Signal |-> 0]
  /\ taken = [s \in Signal |-> 0]

------------------------------------------------------------------------------
(* Traps.  Enter(t) is the trap up to its handler's own effect; a handler  *)
(* that does not suspend leaves t running until its signals are handled.   *)

InUser(t) == running = NONE /\ pc[t] = "user"

Enter(t) == InUser(t) /\ pc' = [pc EXCEPT ![t] = "trap"]

(* A trap that suspends the thread and changes nothing here: the timer     *)
(* interrupt, sys_yield, a call that blocks.                               *)
SuspendingTrap(t) ==
  /\ Enter(t)
  /\ UNCHANGED <<signals, thread_vars, running, hist_vars>>

(* A trap that neither suspends nor changes anything here. *)
OtherTrap(t) ==
  /\ Enter(t)
  /\ running' = t
  /\ UNCHANGED <<signals, thread_vars, hist_vars>>

(* The signal becomes pending.  sys_kill fails when it already is. *)
Accept(s) ==
  /\ s \notin signals
  /\ sent[s] < MaxSent[s]
  /\ signals' = signals \cup {s}
  /\ sent' = [sent EXCEPT ![s] = @ + 1]
  /\ UNCHANGED taken

(* sys_kill by another process; PID2PCB has the process until it exits. *)
sys_kill(signum) ==
  /\ running = NONE
  /\ pc[MAIN] # "gone"
  /\ Accept(Flag(signum))
  /\ UNCHANGED <<thread_vars, pc, running>>

(* sys_kill by a thread of the process itself. *)
sys_kill_self(t, signum) ==
  /\ Enter(t)
  /\ running' = t
  /\ Accept(Flag(signum))
  /\ UNCHANGED thread_vars

(* current_add_signal after a page fault that cannot be served. *)
Fault(t) ==
  /\ Enter(t)
  /\ running' = t
  /\ IF SIGSEGV \in signals THEN UNCHANGED <<signals, hist_vars>>
                            ELSE Accept(SIGSEGV)
  /\ UNCHANGED thread_vars

sys_sigprocmask(t, mask) ==
  /\ Enter(t)
  /\ running' = t
  /\ signal_mask' = [signal_mask EXCEPT ![t] = mask]
  /\ UNCHANGED <<signals, signal_handling, signal_actions, killed, frozen,
                 trap_cx_backup, trap_cx, nested, hist_vars>>

(* check_sigaction_error refuses SIGKILL and SIGSTOP; a signum above       *)
(* MAX_SIG is refused before.                                              *)
sys_sigaction(t, signum, action) ==
  /\ Enter(t)
  /\ running' = t
  /\ signum <= 31
  /\ signum \notin {SIGKILL, SIGSTOP}
  /\ signal_actions' = [signal_actions EXCEPT ![t][signum] = action]
  /\ UNCHANGED <<signals, signal_handling, signal_mask, killed, frozen,
                 trap_cx_backup, trap_cx, nested, hist_vars>>

(* The saved context is taken and unwrapped: the kernel panics when there  *)
(* is none, that is in a handler whose saved context another one           *)
(* overwrote, and in a program that is in no handler.                      *)
sys_sigreturn(t) ==
  /\ Enter(t)
  /\ signal_handling' = [signal_handling EXCEPT ![t] = NONE]
  /\ IF trap_cx_backup[t] = NONE
     THEN running' = PANIC /\ UNCHANGED <<trap_cx, trap_cx_backup>>
     ELSE /\ running' = t
          /\ trap_cx' = [trap_cx EXCEPT ![t] = trap_cx_backup[t]]
          /\ trap_cx_backup' = [trap_cx_backup EXCEPT ![t] = NONE]
  /\ UNCHANGED <<signals, signal_mask, signal_actions, killed, frozen, nested,
                 hist_vars>>

(* A new thread starts with SignalProcessor::new, in user mode. *)
sys_thread_create(t, u) ==
  /\ InUser(t)
  /\ pc[u] = "unborn"
  /\ pc' = [pc EXCEPT ![t] = "trap", ![u] = "user"]
  /\ running' = t
  /\ UNCHANGED <<signals, thread_vars, hist_vars>>

------------------------------------------------------------------------------
(* The way out of a trap *)

(* Mutant: the mask of the action in progress is not looked at. *)
is_handling_masked_never(t, s) == FALSE

is_handling_masked(t, s) ==
  signal_handling[t] # NONE /\ s \in signal_actions[t][signal_handling[t]].mask

(* The pending signals that the loop of check_pending_signals does not     *)
(* skip, and those among them that it gets to: it goes through the signals *)
(* in ascending order and returns after the first user signal, handled or  *)
(* not.                                                                    *)
Deliverable(t) ==
  {s \in signals : s \notin signal_mask[t] /\ ~is_handling_masked(t, s)}

Reached(t) ==
  {s \in Deliverable(t) :
     \A u \in Deliverable(t) \cap UserSignal : s <= u}

(* The user signal reached, if it has a handler. *)
Handled(t) ==
  {s \in Reached(t) \cap UserSignal : signal_actions[t][s].handler}

(* Mutant: SIGCONT reaches only the thread that handles it. *)
call_kernel_signal_handler_self(t) ==
  /\ frozen' = [u \in Thread |->
                 IF pc[u] = "unborn" THEN frozen[u]
                 ELSE SIGSTOP \in Reached(t)
                        \/ (frozen[u] /\ (u = t => SIGCONT \notin Reached(t)))]
  /\ killed' = [u \in Thread |->
                 \/ killed[u]
                 \/ pc[u] # "unborn" /\ {SIGKILL, SIGDEF} \cap Reached(t) # {}]

(* call_kernel_signal_handler for the kernel signals reached, each for     *)
(* every thread of the process; SIGSTOP comes after SIGCONT.               *)
call_kernel_signal_handler(t) ==
  /\ frozen' = [u \in Thread |->
                 IF pc[u] = "unborn" THEN frozen[u]
                 ELSE SIGSTOP \in Reached(t)
                        \/ (frozen[u] /\ SIGCONT \notin Reached(t))]
  /\ killed' = [u \in Thread |->
                 \/ killed[u]
                 \/ pc[u] # "unborn" /\ {SIGKILL, SIGDEF} \cap Reached(t) # {}]

(* The mask of the action in progress, which the program chose, lets s in. *)
LetIn(t, s) ==
  signal_handling[t] # NONE /\ s \notin signal_actions[t][signal_handling[t]].mask

(* call_user_signal_handler: the signal is cleared, the context saved and  *)
(* replaced by the handler's.  A context saved before is overwritten.      *)
call_user_signal_handler(t) ==
  IF Handled(t) = {}
  THEN UNCHANGED <<signal_handling, trap_cx_backup, trap_cx, nested>>
  ELSE LET s == Min(Handled(t)) IN
       /\ signal_handling' = [signal_handling EXCEPT ![t] = s]
       /\ trap_cx_backup' = [trap_cx_backup EXCEPT ![t] = trap_cx[t]]
       /\ trap_cx' = [trap_cx EXCEPT ![t] = Append(@, s)]
       /\ nested' = [nested EXCEPT ![t] = @ \/ LetIn(t, s)]

(* Mutant: SIGKILL is cleared like the other kernel signals. *)
Cleared_kill(t) == Handled(t) \cup (Reached(t) \cap {SIGSTOP, SIGCONT, SIGKILL})

(* What the pass clears: SIGKILL and SIGDEF stay pending. *)
Cleared(t) == Handled(t) \cup (Reached(t) \cap {SIGSTOP, SIGCONT})

(* Mutant: a signal stays pending when its handler is entered. *)
check_pending_signals_keeps(t) ==
  /\ call_kernel_signal_handler(t)
  /\ call_user_signal_handler(t)
  /\ signals' = signals \ (Cleared(t) \ UserSignal)
  /\ taken' = [s \in Signal |-> IF s \in Cleared(t) THEN taken[s] + 1
                                                    ELSE taken[s]]
  /\ UNCHANGED <<signal_mask, signal_actions, sent>>

check_pending_signals(t) ==
  /\ call_kernel_signal_handler(t)
  /\ call_user_signal_handler(t)
  /\ signals' = signals \ Cleared(t)
  /\ taken' = [s \in Signal |-> IF s \in Cleared(t) THEN taken[s] + 1
                                                    ELSE taken[s]]
  /\ UNCHANGED <<signal_mask, signal_actions, sent>>

(* exit_current_and_run_next; the main thread takes the process with it. *)
Exits(t) ==
  pc' = [u \in Thread |-> IF u = t \/ (t = MAIN /\ pc[u] # "unborn")
                          THEN "gone" ELSE pc[u]]

(* Mutants: a frozen thread suspends once and goes on; a killed thread     *)
(* stays frozen.                                                           *)
HandleSignals_once(t) ==
  /\ pc[t] = "trap"
  /\ running \in {NONE, t}
  /\ check_pending_signals(t)
  /\ running' = NONE
  /\ IF frozen'[t] /\ ~killed'[t] /\ ~frozen[t]
     THEN UNCHANGED pc
     ELSE IF signals' \cap ErrorSignal # {}
          THEN Exits(t)
          ELSE pc' = [pc EXCEPT ![t] = "user"]

HandleSignals_no_kill(t) ==
  /\ pc[t] = "trap"
  /\ running \in {NONE, t}
  /\ check_pending_signals(t)
  /\ running' = NONE
  /\ IF frozen'[t]
     THEN UNCHANGED pc
     ELSE IF signals' \cap ErrorSignal # {}
          THEN Exits(t)
          ELSE pc' = [pc EXCEPT ![t] = "user"]

(* One turn of the loop of current_handle_signals and, if it is the last,  *)
(* the rest of trap_handler.  A frozen thread suspends and tries again.    *)
HandleSignals(t) ==
  /\ pc[t] = "trap"
  /\ running \in {NONE, t}
  /\ check_pending_signals(t)
  /\ running' = NONE
  /\ IF frozen'[t] /\ ~killed'[t]
     THEN UNCHANGED pc
     ELSE IF signals' \cap ErrorSignal # {}
          THEN Exits(t)
          ELSE pc' = [pc EXCEPT ![t] = "user"]

(* sys_exit. *)
Exit(t) ==
  /\ InUser(t)
  /\ Exits(t)
  /\ UNCHANGED <<signals, thread_vars, running, hist_vars>>

Next ==
  \/ \E signum \in KillArg : sys_kill(signum)
  \/ \E t \in Thread :
       \/ SuspendingTrap(t)
       \/ OtherTrap(t)
       \/ \E signum \in KillArg : sys_kill_self(t, signum)
       \/ Fault(t)
       \/ \E mask \in ProcMask[t] : sys_sigprocmask(t, mask)
       \/ \E signum \in ActionArg, action \in ActionGiven[t] :
            sys_sigaction(t, signum, action)
       \/ sys_sigreturn(t)
       \/ \E u \in Thread : sys_thread_create(t, u)
       \/ HandleSignals(t)
       \/ Exit(t)

Spec == Init /\ [][Next]_vars

(* The timer preempts a thread in user mode, and the ready queue is FIFO,  *)
(* so a thread that suspended in a trap goes on, whatever the others do    *)
(* (ReadyRuns of KernelSync).                                              *)
Fairness ==
  \A t \in Thread : SF_vars(SuspendingTrap(t)) /\ SF_vars(HandleSignals(t))

FairSpec == Spec /\ Fairness

------------------------------------------------------------------------------
(* Properties *)

(* No accepted signal is lost and none is acted upon twice: each that      *)
(* became pending is still pending or was cleared exactly once, whichever  *)
(* threads of the process looked at the set.                               *)
SignalsConserved ==
  \A s \in Signal :
    sent[s] = taken[s] + (IF s \in signals THEN 1 ELSE 0)

(* While a context is saved, it is the one that the innermost handler      *)
(* interrupted; and a thread in a handler has one saved, so that the       *)
(* unwrap in sys_sigreturn finds the right context, unless the mask of an  *)
(* action let a second handler in.  That exception is real: every program  *)
(* of the repository passes the empty mask, the second handler overwrites  *)
(* the one backup, and the first one's sys_sigreturn panics.               *)
SigreturnRestores ==
  \A t \in Thread :
    /\ trap_cx_backup[t] # NONE =>
         trap_cx[t] = Append(trap_cx_backup[t], signal_handling[t])
    /\ trap_cx[t] # <<>> /\ trap_cx_backup[t] = NONE => nested[t]

(* A killed thread is back in user mode only if SIGDEF killed it: SIGKILL  *)
(* stays pending whatever is masked, handled or sent afterwards, and the   *)
(* error check of trap_handler ends the thread.  SIGDEF marks the threads  *)
(* killed as well, but the check does not know it.                         *)
KilledLeaves ==
  [][\A t \in Thread :
       killed'[t] /\ pc[t] = "trap" /\ pc'[t] = "user" => SIGDEF \in signals']_vars

(* A thread that is stopped in current_handle_signals leaves it only by    *)
(* SIGCONT or because it is killed.                                        *)
StoppedStays ==
  [][\A t \in Thread :
       pc[t] = "trap" /\ frozen[t] /\ pc'[t] = "user" =>
         SIGCONT \in signals \ signals' \/ killed'[t]]_vars

(* A pending user signal below s has no handler in the main thread: the    *)
(* loop of check_pending_signals stops there.                              *)
Shadowed(s) ==
  \E u \in signals \cap UserSignal : u < s /\ ~signal_actions[MAIN][u].handler

(* A signal that the main thread's own mask or the mask of the action in   *)
(* progress makes it skip.  sys_sigprocmask and sys_sigaction take any     *)
(* mask, SIGKILL and SIGCONT included.                                     *)
Masked(s) == s \in signal_mask[MAIN] \/ is_handling_masked(MAIN, s)

(* SIGKILL ends the process unless the kernel panics or the main thread is *)
(* stopped and does not get to the signal, masked or behind a lower user   *)
(* signal without a handler.  A main thread that runs dies all the same:   *)
(* the error check looks at the pending set and at no mask.                *)
KillEndsUnlessShadowed ==
  SIGKILL \in signals
    ~> \/ pc[MAIN] = "gone" \/ running = PANIC
       \/ frozen[MAIN] /\ (Shadowed(SIGKILL) \/ Masked(SIGKILL))

(* A stopped process with a pending SIGCONT goes on, unless the main       *)
(* thread does not get to it, masked or hidden, or SIGSTOP is sent once    *)
(* more before a thread looks at the two: check_pending_signals takes      *)
(* signals in ascending order, so SIGSTOP (19) undoes SIGCONT (18) in the  *)
(* same pass, whichever was sent last.                                     *)
ContinueUnlessShadowed ==
  frozen[MAIN] /\ SIGCONT \in signals
    ~> \/ pc[MAIN] = "gone" \/ ~frozen[MAIN] \/ running = PANIC
       \/ Shadowed(SIGCONT) \/ Masked(SIGCONT) \/ SIGSTOP \in signals
==============================================================================
