------------------------------- MODULE TestTlc -------------------------------
(***************************************************************************)
(* The multi-node cache test `test_tlc` of rust_sim/src/testcases.rs and   *)
(* the FFI calls that stop and reap its threads (ffi.rs).                  *)
(*                                                                         *)
(* Every node is one execution thread with its own `Sim`, so its own      *)
(* connection and cache.  The line at `address_cmp`, on which the          *)
(* followers spin while the coordinator writes the magic value, is        *)
(* modelled as each node's cache entry and the endpoint's directory: a    *)
(* miss sends AcquireBlock, the endpoint probes the other holders and     *)
(* grants, perform() sends the GrantAck, and only then does the cache     *)
(* insert the entry (operations.rs:541-548, cache.rs:102-117).  The probe *)
(* of another node is answered within the endpoint's grant step, from     *)
(* that node's entry as it is at that moment.                              *)
(*                                                                         *)
(* The barrier and the 16 lines are one atomic memory step per cached     *)
(* call.  That is one of the orders the code can take, never all of them  *)
(* (CoherentCache's grantack run shows a call is not atomic against       *)
(* another client), so the module has fewer behaviours than the code: a   *)
(* property it violates is violated by the code, while one it satisfies   *)
(* says nothing.  Probes of a node that has closed are answered from its  *)
(* dropped cache, the most favourable of the endpoint's possible answers  *)
(* (what it really does is hardware behaviour not under src/).  The 16    *)
(* lines are `Lines`, the 50 iterations `Iters`, and the u64 barrier      *)
(* keeps its wrap-around at a width of `Width` bits.                       *)
(***************************************************************************)
EXTENDS Naturals, FiniteSets

CONSTANTS
    Nodes,        \* the execution threads, one per Sim
    Coordinator,  \* the node started with coordinator = true
    NumLines,     \* 16 in the code
    Iters,        \* 50 in the code
    Width,        \* the barrier's width in bits (64 in the code)
    InitCmp,      \* possible contents of address_cmp when the test starts
    InitLine,     \* possible contents of a line when the test starts
    DebugBuild    \* overflow checks on (debug profile) or off (release)

ASSUME /\ Coordinator \in Nodes
       /\ NumLines \in Nat \ {0} /\ Iters \in Nat /\ Width \in Nat \ {0}
       /\ InitCmp \subseteq BOOLEAN /\ InitLine \subseteq Nat
       /\ DebugBuild \in BOOLEAN

Lines == 0 .. NumLines - 1

\* `x -= 1` and `x += 1` on a u64: in a release build both wrap.
U64Dec(x) == (x + 2^Width - 1) % 2^Width
U64Inc(x) == (x + 1) % 2^Width

VARIABLES
    barrier,   \* memory at address_barrier
    cmpMem,    \* endpoint memory at address_cmp = success_val (0xDEADBEEF)
    cmpLine,   \* each node's cache entry for address_cmp: cap and data
    cmpDir,    \* the cap the endpoint believes each node holds on it
    cmpAcq,    \* each node's AcquireBlock of address_cmp in flight
    cmpBusy,   \* the endpoint awaits the GrantAck of a Grant on it
    line,      \* memory at address_base + i * address_move
    pc,        \* where each execution thread is
    zi,        \* the coordinator's `for i in 0..16` zeroing index
    iter,      \* each thread's `for i in 0..50` index
    stop,      \* the AtomicBool `stop` each thread polls (s_local)
    active     \* the AtomicBool `active` each thread clears at the end

cmpVars == <<cmpMem, cmpLine, cmpDir, cmpAcq, cmpBusy>>
vars == <<barrier, cmpVars, line, pc, zi, iter, stop, active>>

Caps == {"ToN", "ToB", "ToT"}
NoAcq == [st |-> "idle", want |-> "ToN", val |-> FALSE]

PCs == {"connect", "setBarrier", "zero", "waitCmp", "inc", "work", "dec",
        "waitZero", "close", "reconnect", "writeCmp", "close2", "done",
        "panicked"}

Init ==
    /\ barrier \in 0 .. 1
    /\ cmpMem \in InitCmp
    /\ cmpLine = [n \in Nodes |-> [cap |-> "ToN", val |-> FALSE]]
    /\ cmpDir = [n \in Nodes |-> "ToN"]
    /\ cmpAcq = [n \in Nodes |-> NoAcq]
    /\ cmpBusy = FALSE
    /\ line \in [Lines -> InitLine]
    /\ pc = [n \in Nodes |-> "connect"]
    /\ zi = 0
    /\ iter = [n \in Nodes |-> 0]
    /\ stop = [n \in Nodes |-> FALSE]
    /\ active = [n \in Nodes |-> TRUE]

Goto(n, l) == pc' = [pc EXCEPT ![n] = l]

\* get_sim(..).establish_connection(), then the branch on `coordinator`.
Connect(n) ==
    /\ pc[n] = "connect"
    /\ Goto(n, IF n = Coordinator THEN "setBarrier" ELSE "waitCmp")
    /\ UNCHANGED <<barrier, cmpVars, line, zi, iter, stop, active>>

\* The coordinator: cached_write(address_barrier, 1).
SetBarrier(n) ==
    /\ pc[n] = "setBarrier"
    /\ barrier' = 1
    /\ Goto(n, "zero")
    /\ UNCHANGED <<cmpVars, line, zi, iter, stop, active>>

\* The coordinator: one cached_write(address, 0) of the `for i in 0..16`.
ZeroLine(n) ==
    /\ pc[n] = "zero"
    /\ line' = [line EXCEPT ![zi] = 0]
    /\ zi' = zi + 1
    /\ Goto(n, IF zi + 1 = NumLines THEN "work" ELSE "zero")
    /\ UNCHANGED <<barrier, cmpVars, iter, stop, active>>

\* A follower: one cached_read(address_cmp) of the spin loop.  A ToB or
\* ToT entry serves it (the loop is left once it holds success_val); with
\* none the cache sends AcquireBlock NtoB and the thread waits in perform.
ReadCmp(n) ==
    /\ pc[n] = "waitCmp" /\ cmpAcq[n].st = "idle"
    /\ \/ /\ cmpLine[n].cap \in {"ToB", "ToT"}
          /\ Goto(n, IF cmpLine[n].val THEN "inc" ELSE "waitCmp")
          /\ UNCHANGED cmpAcq
       \/ /\ cmpLine[n].cap = "ToN"
          /\ cmpAcq' = [cmpAcq EXCEPT ![n] = [NoAcq EXCEPT !.st = "req",
                                                           !.want = "ToB"]]
          /\ UNCHANGED pc
    /\ UNCHANGED <<barrier, cmpMem, cmpLine, cmpDir, cmpBusy, line, zi, iter,
                   stop, active>>

\* The cap the endpoint probes the other holders down to when it grants w.
ProbeCap(w) == IF w = "ToT" THEN "ToN" ELSE "ToB"

\* The nodes the endpoint probes before it grants w to n: by its directory,
\* every other holder for ToT, the Trunk holder for ToB.
Probed(n, w) ==
    {m \in Nodes \ {n} : cmpDir[m] # "ToN" /\ (w = "ToT" \/ cmpDir[m] = "ToT")}

\* process_probes on a probed node: an entry holding a cap other than the
\* probe's and ToN is lowered to it, a Trunk (written) entry gives its data back with ProbeAckData;
\* a node with no entry yet, its Grant acknowledged but not inserted,
\* answers NtoN with no data (cache.rs:345-406).
ProbeLine(m, w) ==
    IF cmpLine[m].cap \notin {ProbeCap(w), "ToN"}
    THEN [cmpLine[m] EXCEPT !.cap = ProbeCap(w)]
    ELSE cmpLine[m]

\* The endpoint serves n's AcquireBlock once no Grant on the line awaits
\* its GrantAck: it probes, takes back written data and grants with the
\* data of its memory.
CmpGrant(n) ==
    LET w  == cmpAcq[n].want
        P  == Probed(n, w)
        wb == {m \in P : cmpLine[m].cap = "ToT"}
        mem == IF wb = {} THEN cmpMem ELSE cmpLine[CHOOSE m \in wb : TRUE].val
    IN
    /\ cmpAcq[n].st = "req" /\ ~cmpBusy
    /\ cmpMem' = mem
    /\ cmpLine' = [m \in Nodes |-> IF m \in P THEN ProbeLine(m, w) ELSE cmpLine[m]]
    /\ cmpDir' = [m \in Nodes |-> CASE m = n  -> w
                                    [] m \in P -> ProbeCap(w)
                                    [] OTHER   -> cmpDir[m]]
    /\ cmpAcq' = [cmpAcq EXCEPT ![n] = [@ EXCEPT !.st = "granted", !.val = mem]]
    /\ cmpBusy' = TRUE
    /\ UNCHANGED <<barrier, line, pc, zi, iter, stop, active>>

\* perform() takes the Grant from the completion slot and sends its GrantAck
\* before it returns to the cache (operations.rs:541-548).
CmpGrantAck(n) ==
    /\ cmpAcq[n].st = "granted"
    /\ cmpAcq' = [cmpAcq EXCEPT ![n].st = "acked"]
    /\ cmpBusy' = FALSE
    /\ UNCHANGED <<barrier, cmpMem, cmpLine, cmpDir, line, pc, zi, iter, stop,
                   active>>

\* The cache inserts the granted line, replacing its entry (insert_entry,
\* cache.rs:102-117); the call's loop then checks the entry again.
CmpInstall(n) ==
    /\ cmpAcq[n].st = "acked"
    /\ cmpLine' = [cmpLine EXCEPT ![n] = [cap |-> cmpAcq[n].want,
                                          val |-> cmpAcq[n].val]]
    /\ cmpAcq' = [cmpAcq EXCEPT ![n] = NoAcq]
    /\ UNCHANGED <<barrier, cmpMem, cmpDir, cmpBusy, line, pc, zi, iter, stop,
                   active>>

\* A follower: cached_rmw(address_barrier, |x| *x += 1).
IncBarrier(n) ==
    /\ pc[n] = "inc"
    /\ barrier' = U64Inc(barrier)
    /\ Goto(n, "work")
    /\ UNCHANGED <<cmpVars, line, zi, iter, stop, active>>

\* One iteration of `for i in 0..50`: the check of s_local, then
\* cached_rmw(address_base + address_move * (i % 16), |x| *x += 1).
Work(n) ==
    /\ pc[n] = "work"
    /\ IF iter[n] < Iters /\ ~stop[n]
         THEN /\ line' = [line EXCEPT ![iter[n] % NumLines] = @ + 1]
              /\ iter' = [iter EXCEPT ![n] = @ + 1]
              /\ UNCHANGED pc
         ELSE /\ Goto(n, "dec")
              /\ UNCHANGED <<line, iter>>
    /\ UNCHANGED <<barrier, cmpVars, zi, stop, active>>

\* cached_rmw(address_barrier, |x| *x -= 1).  At 0 a debug build panics in
\* the closure (the thread dies with `active` still set); a release build
\* wraps.
DecBarrier(n) ==
    /\ pc[n] = "dec"
    /\ IF barrier = 0 /\ DebugBuild
         THEN /\ Goto(n, "panicked")
              /\ UNCHANGED barrier
         ELSE /\ barrier' = U64Dec(barrier)
              /\ Goto(n, "waitZero")
    /\ UNCHANGED <<cmpVars, line, zi, iter, stop, active>>

\* One cached_read(address_barrier) of the loop `while ... != 0`.
ReadBarrier(n) ==
    /\ pc[n] = "waitZero"
    /\ Goto(n, IF barrier = 0 THEN "close" ELSE "waitZero")
    /\ UNCHANGED <<barrier, cmpVars, line, zi, iter, stop, active>>

\* close_connection(); *sim.write() = None.  The coordinator then opens a
\* new Sim (get_sim creates it) and writes the magic value.
Close(n) ==
    /\ pc[n] = "close"
    /\ Goto(n, IF n = Coordinator THEN "reconnect" ELSE "done")
    /\ active' = IF n = Coordinator THEN active
                 ELSE [active EXCEPT ![n] = FALSE]
    /\ UNCHANGED <<barrier, cmpVars, line, zi, iter, stop>>

Reconnect(n) ==
    /\ pc[n] = "reconnect"
    /\ Goto(n, "writeCmp")
    /\ UNCHANGED <<barrier, cmpVars, line, zi, iter, stop, active>>

\* cached_write(address_cmp, success_val): stored into a ToT entry, or the
\* cache sends AcquireBlock for ToT and the thread waits in perform.
WriteCmp(n) ==
    /\ pc[n] = "writeCmp" /\ cmpAcq[n].st = "idle"
    /\ \/ /\ cmpLine[n].cap = "ToT"
          /\ cmpLine' = [cmpLine EXCEPT ![n].val = TRUE]
          /\ Goto(n, "close2")
          /\ UNCHANGED cmpAcq
       \/ /\ cmpLine[n].cap # "ToT"
          /\ cmpAcq' = [cmpAcq EXCEPT ![n] = [NoAcq EXCEPT !.st = "req",
                                                           !.want = "ToT"]]
          /\ UNCHANGED <<cmpLine, pc>>
    /\ UNCHANGED <<barrier, cmpMem, cmpDir, cmpBusy, line, zi, iter, stop,
                   active>>

\* close_connection(); *sim.write() = None; a_local.store(false).
Close2(n) ==
    /\ pc[n] = "close2"
    /\ Goto(n, "done")
    /\ active' = [active EXCEPT ![n] = FALSE]
    /\ UNCHANGED <<barrier, cmpVars, line, zi, iter, stop>>

\* ffi.rs stop_execution_thread: every thread's stop flag is set.
StopExecution ==
    /\ \E n \in Nodes : ~stop[n]
    /\ stop' = [n \in Nodes |-> TRUE]
    /\ UNCHANGED <<barrier, cmpVars, line, pc, zi, iter, active>>

\* ffi.rs can_destroy_execution_thread: no thread is active any more.
CanDestroy == \A n \in Nodes : ~active[n]

\* Every thread has returned; the simulator only polls from here on.
Finished ==
    /\ CanDestroy
    /\ UNCHANGED vars

Node(n) ==
    \/ Connect(n) \/ SetBarrier(n) \/ ZeroLine(n) \/ ReadCmp(n)
    \/ IncBarrier(n) \/ Work(n) \/ DecBarrier(n) \/ ReadBarrier(n)
    \/ Close(n) \/ Reconnect(n) \/ WriteCmp(n) \/ Close2(n)
    \/ CmpGrantAck(n) \/ CmpInstall(n)

Next == (\E n \in Nodes : Node(n) \/ CmpGrant(n)) \/ StopExecution \/ Finished

Spec == Init /\ [][Next]_vars

\* Each execution thread is an OS thread that the scheduler keeps running,
\* and the endpoint serves every AcquireBlock it has; the simulator may
\* never call stop_execution_thread.
FairSpec == Spec /\ \A n \in Nodes : WF_vars(Node(n)) /\ WF_vars(CmpGrant(n))

-----------------------------------------------------------------------------

TypeOK ==
    /\ barrier \in 0 .. 2^Width - 1
    /\ cmpMem \in BOOLEAN
    /\ cmpLine \in [Nodes -> [cap : Caps, val : BOOLEAN]]
    /\ cmpDir \in [Nodes -> Caps] /\ cmpBusy \in BOOLEAN
    /\ cmpAcq \in [Nodes -> [st : {"idle", "req", "granted", "acked"},
                              want : Caps, val : BOOLEAN]]
    /\ line \in [Lines -> Nat]
    /\ pc \in [Nodes -> PCs]
    /\ zi \in 0 .. NumLines
    /\ iter \in [Nodes -> 0 .. Iters]
    /\ stop \in [Nodes -> BOOLEAN] /\ active \in [Nodes -> BOOLEAN]

\* Every execution thread finishes, so can_destroy_execution_thread
\* eventually returns true: in particular no follower spins for ever in
\* the cached_read(address_cmp) loop once the coordinator has written the
\* magic value.
AllThreadsFinish == <>[]CanDestroy

=============================================================================
