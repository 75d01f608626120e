---------------------------- MODULE GuestMachine ----------------------------
(***************************************************************************)
(* The machine facade (src/src/x86sim/x86sim.cpp): Machine::run executes   *)
(* instructions of the guest against one address space until a stop is     *)
(* pending or the instruction limit is reached.  The cores are reduced to  *)
(* what the address space sees of them: the fetch of a page through the    *)
(* code cache and the store to a page.  Either core may run, so an action  *)
(* allows what either does (OooCode and SeqCode model them in detail).     *)
(* The system calls, which are instructions too, are in LinuxMemory and    *)
(* LinuxFiles.                                                             *)
(*                                                                         *)
(* decoded is the code cache of the machine (BasicBlockCache) at the grain *)
(* of a page: the bytes of the page that its cached blocks were decoded    *)
(* from.  There is one per machine, whichever address space runs.          *)
(***************************************************************************)
EXTENDS AddressSpace

CONSTANTS Space,        \* the address spaces the library user keeps
          NoSpace,      \* no run is in progress
          Limits,       \* instruction limits passed to run(), or NoLimit
          MaxInsns,     \* bound: instructions in one behaviour
          StopAt,       \* options.stop_at_user_insns
          StrayMarks,   \* bound: the pages that an uninitialised smc_mfn names
          StaleCodePaths
            \* whether anyone writes to a page while it is executable: a store
            \* of the guest, AddressSpace::write() of a system call or of the
            \* library user, map() failing half-way over it.  The code leaves
            \* stale blocks on each of these paths

ASSUME MachineAssumption == NoSpace \notin Space /\ Space # {} /\ MaxInsns \in Nat

VARIABLES spaces,       \* the AddressSpace objects
          current,      \* the one that Machine::run works on
          decoded,      \* page -> bytes its blocks were decoded from
          total,        \* total_user_insns_committed
          config_stop,  \* config.stop_at_user_insns
          pending_stop, \* reason of the pending stop, or "none"
          reason,       \* the StopReason the last run returned
          last          \* the last instruction: what it asked for and returned

machineVars == <<spaces, current, decoded, total, config_stop, pending_stop, reason, last>>

(* rax after a system call: return_value and return_error. *)
Value(n) == [err |-> "none", val |-> n]
Error(e) == [err |-> e, val |-> 0]

(* What an instruction leaves for the properties: its name, the pages that *)
(* its arguments name, what a data transfer really moved (from where).     *)
DoneFrom(op, pages, from, moved) ==
  [op |-> op, pages |-> pages, from |-> from, moved |-> moved, rax |-> Value(0)]

Done(op, pages, moved) == DoneFrom(op, pages, 0, moved)

as == spaces[current]

(* The instruction committed: the core stops at a pending stop or at the   *)
(* limit, and run() restores the limit and picks the reason, a pending     *)
(* stop before the limit.                                                  *)
Retire(stop) ==
  /\ current # NoSpace
  /\ total < MaxInsns
  /\ total' = total + 1
  /\ IF stop # "none" \/ total + 1 >= config_stop
       THEN /\ current' = NoSpace
            /\ config_stop' = StopAt
            /\ reason' = IF stop # "none" THEN stop ELSE "instruction_limit"
       ELSE UNCHANGED <<current, config_stop, reason>>
  /\ pending_stop' = stop

NoLimit == -1

(* Machine::run(state, space, options), with an optional limit. *)
MachineRun(s, limit) ==
  /\ current = NoSpace
  /\ LET stop == IF limit = NoLimit THEN config_stop ELSE total + limit
     IN  IF total >= stop
           THEN /\ reason' = "instruction_limit"
                /\ UNCHANGED <<current, config_stop>>
           ELSE /\ current' = s
                /\ config_stop' = stop
                /\ UNCHANGED reason
  /\ pending_stop' = "none"
  /\ UNCHANGED <<spaces, decoded, total, last>>

(* throw_x86_exception: the page fault ends the run, the instruction has   *)
(* not committed and the limit is restored.                                *)
PageFault ==
  /\ current' = NoSpace
  /\ config_stop' = StopAt
  /\ reason' = "x86_exception"
  /\ last' = Done("fault", {}, 0)
  /\ UNCHANGED <<spaces, decoded, total, pending_stop>>

PageBytes(s, p) == [a \in UnitsOf({p}) |-> s.mem[a]]

(* The cached blocks of page p are what a fetch would find now. *)
Fresh(p) == check(as, p, {"r", "x"}) /\ decoded[p] = PageBytes(as, p)

DropNothing(dec, ps) == dec

DropDecoded(dec, ps) == Restrict(dec, DOMAIN dec \ ps)

(* The cached blocks of page p, if any, may have to be made again. *)
MustDecode(p) == p \notin DOMAIN decoded \/ pageid(p) \in as.dirtymap

(* translate(): page p is decoded from memory, and clean. *)
Decode(p) ==
  /\ decoded' = With(decoded, p, PageBytes(as, p))
  /\ spaces' = [spaces EXCEPT ![current] = cleardirty(@, {p})]

(* An instruction on page p executes.  It comes from cached blocks, even   *)
(* if the page is dirty: the out-of-order core may have fetched it before  *)
(* the page was written to, and its check at commit does not see a page    *)
(* that was cleaned by a translation since.  Or the page is not cached, or *)
(* found dirty: then it must be readable and executable (copy_from_user    *)
(* with forexec) and is decoded.                                           *)
Execute(p) ==
  /\ current # NoSpace
  /\ \/ /\ p \in DOMAIN decoded
        /\ last' = Done("execute", {p}, IF Fresh(p) THEN 1 ELSE 0)
        /\ UNCHANGED <<spaces, decoded>>
        /\ Retire("none")
     \/ /\ MustDecode(p)
        /\ IF check(as, p, {"r", "x"})
             THEN /\ Decode(p)
                  /\ last' = Done("execute", {p}, 1)
                  /\ Retire("none")
             ELSE PageFault

(* The fetch unit of the out-of-order core decodes page p ahead of the     *)
(* instructions that commit, perhaps on a wrong path.                      *)
FetchAhead(p) ==
  /\ current # NoSpace
  /\ MustDecode(p)
  /\ check(as, p, {"r", "x"})
  /\ Decode(p)
  /\ UNCHANGED <<current, total, config_stop, pending_stop, reason, last>>

(* A store of the guest: check_and_translate tests the write bit.  The     *)
(* out-of-order core marks the page dirty when it commits the store; the   *)
(* sequential core marks the page of sfr.smc_mfn, which it never sets: any *)
(* page (StrayMarks), or one that has nothing to do with the guest.        *)
GuestStore(a, v) ==
  /\ current # NoSpace
  /\ IF check(as, PageOf(a), {"w"})
       THEN /\ StaleCodePaths \/ PageOf(a) \notin as.execmap
            /\ \E marked \in {{}, {PageOf(a)}} \cup {{q} : q \in StrayMarks} :
                 spaces' = [spaces EXCEPT ![current] = setdirty([@ EXCEPT !.mem[a] = v], marked)]
            /\ last' = Done("store", {PageOf(a)}, 1)
            /\ UNCHANGED decoded
            /\ Retire("none")
       ELSE PageFault

(* dispatch_syscall with a handler that goes on: the address space and the *)
(* code cache after the handler, its return value in rax.                  *)
SyscallReturns(s, drop, ret, done) ==
  /\ spaces' = [spaces EXCEPT ![current] = cleardirty(s, drop)]
  /\ decoded' = DropDecoded(decoded, drop)
  /\ last' = [done EXCEPT !.rax = ret]
  /\ Retire("none")

(* dispatch_syscall with a result that stops the run. *)
SyscallStops(why, done) ==
  /\ last' = done
  /\ UNCHANGED <<spaces, decoded>>
  /\ Retire(why)
=============================================================================
