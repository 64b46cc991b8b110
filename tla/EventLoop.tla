----------------------------- MODULE EventLoop ------------------------------
(***************************************************************************)
(* EventLoop: poll, dispatch of the callbacks in the order of entries_,    *)
(* and what callbacks do to the loop while it dispatches: register and     *)
(* remove fds, close files and open others that get the same number, start *)
(* and cancel timers, stop the loop, throw.                                *)
(*                                                                         *)
(* A registration is one AddFd call; registrations are numbered, and the   *)
(* file behind an fd is named by the registration made for it.  A timer is *)
(* a registration whose file the loop owns.                                *)
(***************************************************************************)
EXTENDS Integers, Sequences, FiniteSets, LoopEntries

CONSTANTS
  Fds,      \* the fd numbers
  MaxRegs   \* bound on the registrations

ASSUME FdsAssumption == Fds \subseteq Nat /\ Fds # {}
ASSUME MaxRegsAssumption == MaxRegs \in Nat

VARIABLES
  entries_,   \* records [fd, reg, dead]
  running_,
  file,       \* file[fd]: the registration whose file has that number, 0 when closed
  kind,       \* kind of each registration: "fd", "timer", "oneshot"
  regs,       \* number of registrations made
  ready,      \* registrations whose file is readable
  live,       \* registrations that the application counts on: made and not removed,
              \* a one-shot timer until it fires
  fired,      \* one-shot timers whose callback has started
  pfds,       \* records [idx, fd, revents] of the current round
  reported,   \* registrations whose file poll found readable in this round
  i,          \* index of the dispatch loop
  cur,        \* registration whose callback runs
  pc          \* where the loop thread is

app == <<file, kind, regs, live, fired>>
round == <<pfds, reported, i, cur>>
vars == <<entries_, running_, app, ready, round, pc>>

Regs == 1 .. MaxRegs

Init ==
  /\ entries_ = <<>> /\ running_ = FALSE
  /\ file = [fd \in Fds |-> 0]
  /\ kind = [r \in Regs |-> "fd"]
  /\ regs = 0 /\ ready = {} /\ live = {} /\ fired = {}
  /\ pfds = <<>> /\ reported = {} /\ i = 0 /\ cur = 0
  /\ pc = "out"

-----------------------------------------------------------------------------
(* Faults: plausible slips in the code, to show that the properties below  *)
(* would notice them.  No behaviour of Spec uses one.                      *)

(* The dispatch stops one entry early.                                     *)
DispatchEndsFault == i >= Len(pfds) \/ ~running_

-----------------------------------------------------------------------------
(* What the application does, in callbacks and before Run.                 *)

Calling == pc \in {"out", "callback"}

NewEntry(fd) == [fd |-> fd, reg |-> regs + 1, dead |-> FALSE]

(* AddFd for a file just opened, AddTimer or AddOneShotTimer.  The kernel  *)
(* gives out the smallest free number.                                     *)
AddFd(k) ==
  /\ Calling /\ regs < MaxRegs
  /\ \E fd \in Fds :
       /\ file[fd] = 0 /\ \A g \in Fds : g < fd => file[g] # 0
       /\ entries_' = Append(entries_, NewEntry(fd))
       /\ file' = [file EXCEPT ![fd] = regs + 1]
  /\ regs' = regs + 1
  /\ kind' = [kind EXCEPT ![regs + 1] = k]
  /\ live' = live \cup {regs + 1}
  /\ UNCHANGED <<running_, fired, ready, round, pc>>

(* RemoveFd.  The file stays open until its owner closes it.              *)
RemoveFd(fd) ==
  /\ Calling /\ file[fd] \in live /\ kind[file[fd]] = "fd"
  /\ entries_' = RemovedFd(entries_, fd)
  /\ live' = live \ {file[fd]}
  /\ ready' = ready \ {file[fd]}
  /\ UNCHANGED <<running_, file, kind, regs, fired, round, pc>>

(* The owner closes a file that it has removed from the loop.              *)
CloseFile(fd) ==
  /\ Calling /\ file[fd] # 0 /\ file[fd] \notin live
  /\ file' = [file EXCEPT ![fd] = 0]
  /\ UNCHANGED <<entries_, running_, kind, regs, live, fired, ready, round, pc>>

(* RemoveTimer: RemoveFd, and the loop closes the timerfd.                 *)
RemoveTimer(tfd) ==
  /\ Calling /\ file[tfd] \in live /\ kind[file[tfd]] # "fd"
  /\ entries_' = RemovedFd(entries_, tfd)
  /\ file' = [file EXCEPT ![tfd] = 0]
  /\ live' = live \ {file[tfd]}
  /\ ready' = ready \ {file[tfd]}
  /\ UNCHANGED <<running_, kind, regs, fired, round, pc>>

(* Stop, by any thread or a signal handler, at any time.                   *)
Stop ==
  /\ pc # "out"
  /\ running_' = FALSE
  /\ UNCHANGED <<entries_, app, ready, round, pc>>

(* Data or a hang-up arrives, or a timer expires.                          *)
BecomesReady(r) ==
  /\ r \in live
  /\ ready' = ready \cup {r}
  /\ UNCHANGED <<entries_, running_, app, round, pc>>

-----------------------------------------------------------------------------
(* Run.                                                                    *)

Run ==
  /\ pc = "out"
  /\ pc' = "enter"
  /\ UNCHANGED <<entries_, running_, app, ready, round>>

RunStore ==
  /\ pc = "enter"
  /\ running_' = TRUE
  /\ pc' = "build"
  /\ UNCHANGED <<entries_, app, ready, round>>

(* What ends the loop over the rounds and the one over the pollfds.        *)
Stopped == ~running_

(* The loop test, and a pollfd for each entry that is not a tombstone.     *)
Build ==
  /\ pc = "build"
  /\ IF ~Stopped
     THEN /\ pc' = "poll"
          /\ pfds' = Selected([k \in DOMAIN entries_ |->
                                 [idx |-> k, fd |-> entries_[k].fd, revents |-> FALSE]],
                             Alive(entries_))
     ELSE pc' = "out" /\ UNCHANGED pfds
  /\ UNCHANGED <<entries_, running_, app, ready, reported, i, cur>>

(* poll returns what is readable, on a time-out nothing.                   *)
Poll ==
  /\ pc = "poll"
  /\ pfds' = [n \in DOMAIN pfds |-> [pfds[n] EXCEPT !.revents = file[pfds[n].fd] \in ready]]
  /\ reported' = ready
  /\ i' = 1 /\ pc' = "dispatch"
  /\ UNCHANGED <<entries_, running_, app, ready, cur>>

(* A signal interrupts poll.                                               *)
PollInterrupted ==
  /\ pc = "poll"
  /\ pc' = "build" /\ pfds' = <<>>
  /\ UNCHANGED <<entries_, running_, app, ready, reported, i, cur>>

(* poll fails with another error, and Run throws.                          *)
PollFails ==
  /\ pc = "poll"
  /\ pc' = "out" /\ pfds' = <<>>
  /\ UNCHANGED <<entries_, running_, app, ready, reported, i, cur>>

(* The callback of an entry starts; it reads what made its file ready.     *)
(* That of a one-shot timer first removes the timer.                       *)
Call(e) ==
  /\ cur' = e.reg /\ pc' = "callback"
  /\ ready' = ready \ {e.reg}
  /\ IF kind[e.reg] = "oneshot"
     THEN /\ entries_' = RemovedFd(entries_, e.fd)
          /\ file' = [file EXCEPT ![e.fd] = 0]
          /\ live' = live \ {e.reg}
          /\ fired' = fired \cup {e.reg}
     ELSE UNCHANGED <<entries_, file, live, fired>>

DispatchEnds == i > Len(pfds) \/ Stopped

Dispatch ==
  /\ pc = "dispatch" /\ ~DispatchEnds
  /\ i' = i + 1
  /\ IF Skipped(entries_, pfds[i])
     THEN UNCHANGED <<entries_, file, live, fired, ready, cur, pc>>
     ELSE Call(EntryAt(entries_, pfds[i]))
  /\ UNCHANGED <<running_, kind, regs, pfds, reported>>

CallbackReturn ==
  /\ pc = "callback"
  /\ pc' = "dispatch" /\ cur' = 0
  /\ UNCHANGED <<entries_, running_, app, ready, pfds, reported, i>>

(* A callback throws: Run compacts and passes the exception on.            *)
CallbackThrows ==
  /\ pc = "callback"
  /\ entries_' = Compacted(entries_)
  /\ pc' = "out"
  /\ pfds' = <<>> /\ reported' = {} /\ i' = 0 /\ cur' = 0
  /\ UNCHANGED <<running_, app, ready>>

RoundEnd ==
  /\ pc = "dispatch" /\ DispatchEnds
  /\ entries_' = Compacted(entries_)
  /\ pc' = "build"
  /\ pfds' = <<>> /\ reported' = {} /\ i' = 0
  /\ UNCHANGED <<running_, app, ready, cur>>

-----------------------------------------------------------------------------
Loop == RunStore \/ Build \/ Poll \/ Dispatch \/ CallbackReturn \/ RoundEnd

Environment ==
  \/ \E k \in {"fd", "timer", "oneshot"} : AddFd(k)
  \/ \E fd \in Fds : RemoveFd(fd) \/ CloseFile(fd) \/ RemoveTimer(fd)
  \/ \E r \in Regs : BecomesReady(r)
  \/ Run \/ Stop \/ PollInterrupted \/ PollFails \/ CallbackThrows

Next == Loop \/ Environment

(* The thread in Run goes on: poll has a time-out, is not interrupted for  *)
(* ever, and callbacks return.                                             *)
Fairness == WF_vars(Loop) /\ SF_vars(Poll)

Spec == Init /\ [][Next]_vars /\ Fairness

-----------------------------------------------------------------------------
(* Types.  While a round is dispatched, the indexes taken when it was      *)
(* built still lead to entries of the numbers that were polled, whatever   *)
(* the callbacks add and remove.                                           *)
TypeOK ==
  /\ entries_ \in Seq([fd : Fds, reg : Regs, dead : BOOLEAN]) /\ Len(entries_) <= regs
  /\ running_ \in BOOLEAN
  /\ file \in [Fds -> 0 .. regs] /\ kind \in [Regs -> {"fd", "timer", "oneshot"}]
  /\ regs \in 0 .. MaxRegs
  /\ ready \subseteq live /\ live \subseteq 1 .. regs /\ fired \subseteq 1 .. regs
  /\ reported \subseteq 1 .. regs
  /\ pc \in {"out", "enter", "build", "poll", "dispatch", "callback"}
  /\ cur \in 0 .. regs
  /\ pc \in {"poll", "dispatch", "callback"} =>
       \A n \in DOMAIN pfds : /\ pfds[n].idx \in DOMAIN entries_
                              /\ entries_[pfds[n].idx].fd = pfds[n].fd
  /\ pc \in {"dispatch", "callback"} => i \in 1 .. Len(pfds) + 1

(* The entries that are not tombstones are those of the registrations made *)
(* and not removed, one each, and each has the number of its own file,     *)
(* although RemoveFd goes by numbers and numbers are given out again.  And *)
(* the state has its types.                                                *)
EntriesMatchLive ==
  /\ TypeOK
  /\ {entries_[k].reg : k \in Alive(entries_)} = live
  /\ Cardinality(Alive(entries_)) = Cardinality(live)
  /\ \A k \in Alive(entries_) : file[entries_[k].fd] = entries_[k].reg

Starts == pc # "callback" /\ pc' = "callback"

(* A callback starts only for a registration that has not been removed,    *)
(* not even in the round in which poll had reported its fd; for an event   *)
(* of its own file, never for one of an earlier file that had the same     *)
(* number; and once if it is that of a one-shot timer.                     *)
OwnCallback == [][Starts => cur' \in (live \cap reported) \ fired]_vars

(* A registered fd that is readable gets its callback, unless it is        *)
(* removed or the loop is left; and a Stop that finds the loop running, by *)
(* whichever thread or callback, makes Run return.  A Stop before the      *)
(* first store of Run is lost.                                             *)
Served ==
  /\ \A r \in Regs : r \in ready ~> r \notin ready \/ pc = "out"
  /\ (~running_ /\ pc # "enter") ~> pc = "out"

=============================================================================
