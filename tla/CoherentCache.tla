---------------------------- MODULE CoherentCache ----------------------------
(***************************************************************************)
(* The coherent client cache of omnixtend-rs (cache.rs) with the threads   *)
(* that drive it: application threads calling read, write, rmw and         *)
(* release_addr; the tick thread, which runs process_probes and then       *)
(* check_send (tick.rs); and the receive thread, which queues probes and   *)
(* completes operations (utils.rs process_packet).  Operations::perform()  *)
(* is the path from a thread to the wire: it queues a message on           *)
(* operations_outstanding and, for a message with a response, waits on    *)
(* the completion slot of its source.                                      *)
(*                                                                         *)
(* The other side is the TileLink manager of the endpoint, which is not    *)
(* part of src/: it is modelled from the protocol description.  It keeps a *)
(* directory of the cap it believes the host holds, grants, probes on      *)
(* behalf of other clients and acknowledges releases.  The link between    *)
(* the two is reliable and in order, which is what OxLink shows the        *)
(* sequence/ACK layer provides (LinkSpec); only the tick thread moves      *)
(* queued messages onto it.                                                *)
(***************************************************************************)
EXTENDS Naturals, Sequences, SequencesExt, TLPermissions

CONSTANTS
    Threads,        \* application threads using this cache
    Addrs,          \* cache-line addresses
    MaxVal,         \* data values are 0 .. MaxVal
    OpKinds,        \* the cache calls the threads make
    MaxOps,         \* calls per thread
    ProbeOps,       \* probes the manager sends: ProbeBlock (6), ProbePerm (7)
    ProbeCaps,      \* caps the manager probes to
    MaxProbes,      \* probes the manager sends in one behaviour
    MaxOtherWrites, \* writes by other clients in one behaviour
    None            \* an empty completion slot, an unlocked entry

ASSUME /\ OpKinds \subseteq {"read", "write", "rmw", "release", "releaseAll"}
       /\ ProbeOps \subseteq {"ProbeBlock", "ProbePerm"} /\ ProbeCaps \subseteq Caps
       /\ {MaxVal, MaxOps, MaxProbes, MaxOtherWrites} \subseteq Nat

Values == 0 .. MaxVal

\* The closure rmw is given; the test programs increment.
RmwF(x) == (x + 1) % (MaxVal + 1)

\* CachedEntry, with present = FALSE for an address the DashMap lacks.
Entries == [present : BOOLEAN, valid : BOOLEAN, modified : BOOLEAN,
            releasePending : BOOLEAN, perm : Caps, data : Values]
Absent == [present |-> FALSE, valid |-> FALSE, modified |-> FALSE,
           releasePending |-> FALSE, perm |-> "ToN", data |-> 0]

\* A TileLink message, reduced to the fields the cache and manager use.
\* Messages with no response use source 0, as get_source() does; the
\* model writes None for it.
MsgOps == {"AcquireBlock", "GrantAck", "Release", "ReleaseData",
           "ProbeAck", "ProbeAckData", "GrantData", "ReleaseAck",
           "ProbeBlock", "ProbePerm"}
Msgs == [op : MsgOps, addr : Addrs, param : Caps \cup Grows \cup Changes,
         data : Values, src : Threads \cup {None}]
Msg(o, a, p, d, s) == [op |-> o, addr |-> a, param |-> p, data |-> d, src |-> s]

\* The channel a message travels on.
ChanOf(m) == CASE m.op = "AcquireBlock"                 -> "A"
              [] m.op \in {"ProbeBlock", "ProbePerm"}    -> "B"
              [] m.op \in {"Release", "ReleaseData",
                           "ProbeAck", "ProbeAckData"}  -> "C"
              [] m.op \in {"GrantData", "ReleaseAck"}   -> "D"
              [] OTHER                                  -> "E"

Ops == [kind : OpKinds, addr : Addrs, val : Values]

VARIABLES
    entry,          \* Cache::cache
    lockOwner,      \* the thread holding an entry's DashMap write guard
    probes,         \* Cache::probes
    kept,           \* probes retain() keeps, while process_probes runs
    tickPc,         \* "send": between ticks; "probes": in process_probes
    ops,            \* Operations::operations_outstanding
    completion,     \* the bounded(1) completion slot of each source
    pc,             \* each application thread's place in its call
    op,             \* the call a thread is in
    opsLeft,        \* calls a thread has still to make
    grantData,      \* the data a thread's AcquireBlock returned
    relLeft,        \* the lines release() has still to visit
    mgrA, mgrC, mgrE, \* the manager's input queues per channel
    toHost,         \* B and D messages on their way to the host
    dir,            \* the cap the manager believes the host holds
    mem,            \* the manager's copy of each line
    txn,            \* the manager's transaction on each line
    probesLeft, otherWritesLeft,
    latest          \* the last value written to each line, by anyone

hostVars == <<entry, lockOwner, probes, kept, tickPc, ops, completion>>
appVars == <<pc, op, opsLeft, grantData, relLeft>>
mgrVars == <<mgrA, mgrC, mgrE, toHost, dir, mem, txn, probesLeft,
             otherWritesLeft>>
vars == <<hostVars, appVars, mgrVars, latest>>

Init ==
    /\ entry = [a \in Addrs |-> Absent]
    /\ lockOwner = [a \in Addrs |-> None]
    /\ probes = <<>> /\ kept = <<>>
    /\ tickPc = "send"
    /\ ops = <<>>
    /\ completion = [t \in Threads |-> None]
    /\ pc = [t \in Threads |-> "idle"]
    /\ op = [t \in Threads |-> [kind |-> CHOOSE k \in OpKinds : TRUE,
                                addr |-> CHOOSE a \in Addrs : TRUE, val |-> 0]]
    /\ opsLeft = [t \in Threads |-> MaxOps]
    /\ grantData = [t \in Threads |-> 0]
    /\ relLeft = [t \in Threads |-> {}]
    /\ mgrA = <<>> /\ mgrC = <<>> /\ mgrE = <<>> /\ toHost = <<>>
    /\ dir = [a \in Addrs |-> "ToN"]
    /\ mem = [a \in Addrs |-> 0]
    /\ txn = [a \in Addrs |-> "none"]
    /\ probesLeft = MaxProbes /\ otherWritesLeft = MaxOtherWrites
    /\ latest = [a \in Addrs |-> 0]
-----------------------------------------------------------------------------
(* Application threads.                                                    *)

\* The line may serve a call: valid, no release in progress, and the cap
\* the call needs (read: ToB or ToT; write and rmw: ToT).
Usable(e, kind) ==
    /\ e.present /\ e.valid /\ ~e.releasePending
    /\ e.perm \in (IF kind = "read" THEN {"ToT", "ToB"} ELSE {"ToT"})

\* Mutant: rmw acquires and installs the line as read does.
WantedRmwBranch(kind) == IF kind \in {"read", "rmw"} THEN "ToB" ELSE "ToT"

\* Mutant: the call names the grow it requests where the cap is meant.
WantedAsGrow(kind) == IF kind = "read" THEN "NtoB" ELSE "NtoT"

\* The cap a call acquires when the line cannot serve it.
Wanted(kind) == IF kind = "read" THEN "ToB" ELSE "ToT"

\* A thread calls read, write, rmw or release_addr.
AppStart(t) ==
    /\ pc[t] = "idle" /\ opsLeft[t] > 0
    /\ \E k \in OpKinds, a \in Addrs, v \in Values :
          op' = [op EXCEPT ![t] = [kind |-> k, addr |-> a, val |-> v]]
    /\ opsLeft' = [opsLeft EXCEPT ![t] = @ - 1]
    /\ pc' = [pc EXCEPT ![t] = "check"]
    /\ UNCHANGED <<hostVars, grantData, relLeft, mgrVars, latest>>

\* The miss path of one pass of the loop of read, write or rmw: perform an
\* AcquireBlock that grows the cap the line has (ToN when it is absent) to
\* the one the call needs.  A line with a release pending makes the loop
\* yield, which changes nothing; the guard of a release makes that state
\* invisible here.
AppMiss(t, k) ==
    LET e == entry[op[t].addr] IN
    /\ ~Usable(e, k) /\ ~(e.present /\ e.releasePending)
    /\ ops' = Append(ops, Msg("AcquireBlock", op[t].addr,
                  GetPermissionChangeGrow(IF e.present THEN e.perm ELSE "ToN",
                                          Wanted(k)),
                  0, t))
    /\ pc' = [pc EXCEPT ![t] = "wait"]
    /\ UNCHANGED <<entry, latest>>

\* The hit path of write and rmw under the entry's write guard: the line
\* becomes modified and holds v.
AppStore(t, v) ==
    LET a == op[t].addr IN
    /\ entry' = [entry EXCEPT ![a].modified = TRUE, ![a].data = v]
    /\ latest' = [latest EXCEPT ![a] = v]
    /\ pc' = [pc EXCEPT ![t] = "idle"]
    /\ UNCHANGED ops

\* One pass of Cache::read under the entry's read guard: return the data
\* of a valid ToB or ToT line, or acquire ToB.
AppRead(t) ==
    /\ pc[t] = "check" /\ op[t].kind = "read"
    /\ lockOwner[op[t].addr] = None
    /\ \/ /\ Usable(entry[op[t].addr], "read")
          /\ pc' = [pc EXCEPT ![t] = "idle"]
          /\ UNCHANGED <<entry, latest, ops>>
       \/ AppMiss(t, "read")
    /\ UNCHANGED <<lockOwner, probes, kept, tickPc, completion, op, opsLeft,
                   grantData, relLeft, mgrVars>>

\* One pass of Cache::write: store the value into a valid ToT line, or
\* acquire ToT.
AppWrite(t) ==
    /\ pc[t] = "check" /\ op[t].kind = "write"
    /\ lockOwner[op[t].addr] = None
    /\ \/ Usable(entry[op[t].addr], "write") /\ AppStore(t, op[t].val)
       \/ AppMiss(t, "write")
    /\ UNCHANGED <<lockOwner, probes, kept, tickPc, completion, op, opsLeft,
                   grantData, relLeft, mgrVars>>

\* One pass of Cache::rmw: apply f to the data of a valid ToT line and
\* store the result, or acquire ToT.
AppRmw(t) ==
    /\ pc[t] = "check" /\ op[t].kind = "rmw"
    /\ lockOwner[op[t].addr] = None
    /\ \/ /\ Usable(entry[op[t].addr], "rmw")
          /\ AppStore(t, RmwF(entry[op[t].addr].data))
       \/ AppMiss(t, "rmw")
    /\ UNCHANGED <<lockOwner, probes, kept, tickPc, completion, op, opsLeft,
                   grantData, relLeft, mgrVars>>

AppAccess(t) == AppRead(t) \/ AppWrite(t) \/ AppRmw(t)

\* perform() returns from wait_for_response with the Grant and, before it
\* returns to the cache, sends the GrantAck for the Grant's sink.
AppGranted(t) ==
    /\ pc[t] = "wait"
    /\ completion[t] # None /\ completion[t].op = "GrantData"
    /\ ops' = Append(ops, Msg("GrantAck", completion[t].addr, "NtoN", 0, None))
    /\ grantData' = [grantData EXCEPT ![t] = completion[t].data]
    /\ completion' = [completion EXCEPT ![t] = None]
    /\ pc' = [pc EXCEPT ![t] = "install"]
    /\ UNCHANGED <<entry, lockOwner, probes, kept, tickPc, op, opsLeft,
                   relLeft, mgrVars, latest>>

\* insert_entry: a fresh, clean, valid line with the cap the call wanted,
\* replacing whatever entry there was; the loop then runs again.
AppInstall(t) ==
    LET a == op[t].addr IN
    /\ pc[t] = "install"
    /\ lockOwner[a] = None
    /\ entry' = [entry EXCEPT ![a] = [present |-> TRUE, valid |-> TRUE,
                    modified |-> FALSE, releasePending |-> FALSE,
                    perm |-> Wanted(op[t].kind), data |-> grantData[t]]]
    /\ pc' = [pc EXCEPT ![t] = "check"]
    /\ UNCHANGED <<lockOwner, probes, kept, tickPc, ops, completion, op,
                   opsLeft, grantData, relLeft, mgrVars, latest>>

\* Mutant: a modified line is released without its data.
ReleaseOfClean(e, a, t) ==
    Msg("Release", a, GetPermissionChange(e.perm, "ToN"), e.data, t)

\* handle_release: a modified line goes back as ReleaseData, any other as
\* Release, both from the line's cap to ToN.
ReleaseOf(e, a, t) ==
    Msg(IF e.modified THEN "ReleaseData" ELSE "Release",
        a, GetPermissionChange(e.perm, "ToN"), e.data, t)

\* The filter of release and the check of release_addr: a valid line with a
\* cap and no release in progress.
Releasable(e) == e.present /\ e.valid /\ ~e.releasePending /\ e.perm # "ToN"

\* release_addr: under the entry's write guard, a valid line with a cap is
\* marked release_pending and handle_release performs a Release (or a
\* ReleaseData of a modified line) from its cap to ToN, keeping the guard
\* while perform() waits for the ReleaseAck.  Any other line is
\* NotInCache.
AppRelease(t) ==
    LET a == op[t].addr
        e == entry[a]
    IN
    /\ pc[t] = "check" /\ op[t].kind = "release"
    /\ lockOwner[a] = None
    /\ \/ /\ Releasable(e)
          /\ lockOwner' = [lockOwner EXCEPT ![a] = t]
          /\ entry' = [entry EXCEPT ![a].releasePending = TRUE]
          /\ ops' = Append(ops, ReleaseOf(e, a, t))
          /\ pc' = [pc EXCEPT ![t] = "relWait"]
       \/ /\ ~Releasable(e)
          /\ pc' = [pc EXCEPT ![t] = "idle"]
          /\ UNCHANGED <<lockOwner, entry, ops>>
    /\ UNCHANGED <<probes, kept, tickPc, completion, op, opsLeft, grantData, relLeft,
                   mgrVars, latest>>

\* The ReleaseAck arrives: handle_release clears the line and the guard is
\* dropped; release_addr returns, release goes on to its next line.
AppReleased(t) ==
    LET a == op[t].addr IN
    /\ pc[t] \in {"relWait", "relAllWait"}
    /\ completion[t] # None /\ completion[t].op = "ReleaseAck"
    /\ entry' = [entry EXCEPT ![a].modified = FALSE, ![a].perm = "ToN",
                              ![a].valid = FALSE, ![a].releasePending = FALSE]
    /\ lockOwner' = [lockOwner EXCEPT ![a] = None]
    /\ completion' = [completion EXCEPT ![t] = None]
    /\ pc' = [pc EXCEPT ![t] = IF @ = "relWait" THEN "idle" ELSE "relAll"]
    /\ UNCHANGED <<probes, kept, tickPc, ops, op, opsLeft, grantData, relLeft,
                   mgrVars, latest>>

\* release: iter_mut visits every entry of the DashMap, in an order the
\* hashes fix and the model leaves open.  The guards are the model's
\* per-line guards, as for get_mut (one line per shard).
AppReleaseAll(t) ==
    /\ pc[t] = "check" /\ op[t].kind = "releaseAll"
    /\ relLeft' = [relLeft EXCEPT ![t] = {a \in Addrs : entry[a].present}]
    /\ pc' = [pc EXCEPT ![t] = "relAll"]
    /\ UNCHANGED <<hostVars, op, opsLeft, grantData, mgrVars, latest>>

\* One entry: its guard is taken, the filter read under it, and a line that
\* passes goes through handle_release with the guard held; one that fails
\* is skipped.
AppReleaseNext(t) ==
    /\ pc[t] = "relAll"
    /\ \E a \in relLeft[t] :
          /\ lockOwner[a] = None
          /\ relLeft' = [relLeft EXCEPT ![t] = @ \ {a}]
          /\ \/ /\ Releasable(entry[a])
                /\ lockOwner' = [lockOwner EXCEPT ![a] = t]
                /\ entry' = [entry EXCEPT ![a].releasePending = TRUE]
                /\ ops' = Append(ops, ReleaseOf(entry[a], a, t))
                /\ op' = [op EXCEPT ![t].addr = a]
                /\ pc' = [pc EXCEPT ![t] = "relAllWait"]
             \/ /\ ~Releasable(entry[a])
                /\ UNCHANGED <<lockOwner, entry, ops, op, pc>>
    /\ UNCHANGED <<probes, kept, tickPc, completion, opsLeft, grantData,
                   mgrVars, latest>>

\* The iterator is exhausted and release returns Ok.
AppReleaseAllDone(t) ==
    /\ pc[t] = "relAll" /\ relLeft[t] = {}
    /\ pc' = [pc EXCEPT ![t] = "idle"]
    /\ UNCHANGED <<hostVars, op, opsLeft, grantData, relLeft, mgrVars, latest>>
-----------------------------------------------------------------------------
(* The tick thread: Tick::tick runs process_probes, then check_send.       *)

\* check_send: send_packet takes the queued messages into a frame; the
\* manager receives each on its channel's queue.  Then the next tick takes
\* the probes mutex for process_probes.
TickSend ==
    /\ tickPc = "send"
    /\ mgrA' = mgrA \o SelectSeq(ops, LAMBDA m : ChanOf(m) = "A")
    /\ mgrC' = mgrC \o SelectSeq(ops, LAMBDA m : ChanOf(m) = "C")
    /\ mgrE' = mgrE \o SelectSeq(ops, LAMBDA m : ChanOf(m) = "E")
    /\ ops' = <<>>
    /\ tickPc' = "probes"
    /\ UNCHANGED <<entry, lockOwner, probes, kept, completion, appVars, toHost,
                   dir, mem, txn, probesLeft, otherWritesLeft, latest>>

\* change_permission_probe finds the line with its release pending.
ProbeBlocked(e) == e.present /\ e.releasePending

\* change_permission_probe for the probe at the head of the queue, under the
\* entry's guard, and the ProbeAck or ProbeAckData retain() then performs.
\* A line with a release pending is kept for the next tick.  A line that
\* has a cap other than ToN and other than the one asked for takes the
\* asked-for cap and, when modified, hands its data back; only a
\* ProbeBlock (opcode 6) sends that data.
TickProbe ==
    LET p       == Head(probes)
        a       == p.addr
        e       == entry[a]
        blocked == ProbeBlocked(e)
        change  == IF e.present /\ ~blocked
                   THEN GetPermissionChange(e.perm, p.param)
                   ELSE GetPermissionChange("ToN", "ToN")
        lowers  == e.present /\ ~blocked /\ e.perm # p.param /\ e.perm # "ToN"
        wb      == lowers /\ e.modified
    IN
    /\ tickPc = "probes" /\ probes # <<>>
    /\ lockOwner[a] = None
    /\ entry' = IF lowers
                THEN [entry EXCEPT ![a].perm = p.param, ![a].modified = FALSE]
                ELSE entry
    /\ kept' = IF blocked THEN Append(kept, p) ELSE kept
    /\ ops' = CASE blocked           -> ops
                [] wb /\ p.op = "ProbeBlock" -> Append(ops, Msg("ProbeAckData", a,
                                                        change, e.data, None))
                [] OTHER             -> Append(ops, Msg("ProbeAck", a,
                                                        change, 0, None))
    /\ probes' = Tail(probes)
    /\ UNCHANGED <<lockOwner, tickPc, completion, appVars, mgrVars, latest>>

\* retain() ends: the kept probes are the queue, the mutex is released.
TickProbesDone ==
    /\ tickPc = "probes" /\ probes = <<>>
    /\ probes' = kept /\ kept' = <<>>
    /\ tickPc' = "send"
    /\ UNCHANGED <<entry, lockOwner, ops, completion, appVars, mgrVars, latest>>

\* Mutant: add_probe that drops a probe when the mutex is taken.
HostRecvTryLock ==
    LET m == Head(toHost) IN
    /\ toHost # <<>>
    /\ toHost' = Tail(toHost)
    /\ \/ /\ ChanOf(m) = "B"
          /\ probes' = IF tickPc # "probes" THEN Append(probes, m) ELSE probes
          /\ UNCHANGED completion
       \/ /\ ChanOf(m) = "D"
          /\ completion[m.src] = None
          /\ completion' = [completion EXCEPT ![m.src] = m]
          /\ UNCHANGED probes
    /\ UNCHANGED <<entry, lockOwner, kept, tickPc, ops, appVars, mgrA, mgrC,
                   mgrE, dir, mem, txn, probesLeft, otherWritesLeft, latest>>

(* The receive thread: process_packet hands probes to add_probe, which     *)
(* takes the probes mutex, and responses to Operations::complete, which    *)
(* sends into the source's bounded(1) slot.                                *)
HostRecv ==
    LET m == Head(toHost) IN
    /\ toHost # <<>>
    /\ toHost' = Tail(toHost)
    /\ \/ /\ ChanOf(m) = "B"
          /\ tickPc # "probes"
          /\ probes' = Append(probes, m)
          /\ UNCHANGED completion
       \/ /\ ChanOf(m) = "D"
          /\ completion[m.src] = None
          /\ completion' = [completion EXCEPT ![m.src] = m]
          /\ UNCHANGED probes
    /\ UNCHANGED <<entry, lockOwner, kept, tickPc, ops, appVars, mgrA, mgrC,
                   mgrE, dir, mem, txn, probesLeft, otherWritesLeft, latest>>
-----------------------------------------------------------------------------
(* The endpoint's TileLink manager.  It serialises the transactions on a   *)
(* line: an Acquire waits at the head of channel A while a Grant awaits    *)
(* its GrantAck or a Probe its ProbeAck; C and E are never blocked.        *)

\* An AcquireBlock is granted with the manager's data; the manager now
\* believes the host holds the cap the grow leads to.
MgrAcquire ==
    LET m == Head(mgrA) IN
    /\ mgrA # <<>> /\ txn[m.addr] = "none"
    /\ mgrA' = Tail(mgrA)
    /\ dir' = [dir EXCEPT ![m.addr] = GetResultingPermission(m.param)]
    /\ txn' = [txn EXCEPT ![m.addr] = "grant"]
    /\ toHost' = Append(toHost, Msg("GrantData", m.addr, "NtoN",
                                    mem[m.addr], m.src))
    /\ UNCHANGED <<hostVars, appVars, mgrC, mgrE, mem, probesLeft,
                   otherWritesLeft, latest>>

\* The GrantAck ends the grant; the sink names the line.
MgrGrantAck ==
    LET m == Head(mgrE) IN
    /\ mgrE # <<>>
    /\ mgrE' = Tail(mgrE)
    /\ txn' = [txn EXCEPT ![m.addr] = "none"]
    /\ UNCHANGED <<hostVars, appVars, mgrA, mgrC, toHost, dir, mem,
                   probesLeft, otherWritesLeft, latest>>

\* Channel C: a ProbeAck ends the probe, a Release is acknowledged; the
\* manager takes the param as the host's new cap and keeps any data.
MgrRecvC ==
    LET m == Head(mgrC) IN
    /\ mgrC # <<>>
    /\ mgrC' = Tail(mgrC)
    /\ dir' = [dir EXCEPT ![m.addr] = ChangeResult(m.param)]
    /\ mem' = IF m.op \in {"ProbeAckData", "ReleaseData"}
              THEN [mem EXCEPT ![m.addr] = m.data] ELSE mem
    /\ \/ /\ m.op \in {"ProbeAck", "ProbeAckData"}
          /\ txn' = [txn EXCEPT ![m.addr] = "none"]
          /\ UNCHANGED toHost
       \/ /\ m.op \in {"Release", "ReleaseData"}
          /\ toHost' = Append(toHost, Msg("ReleaseAck", m.addr, "NtoN", 0,
                                          m.src))
          /\ UNCHANGED txn
    /\ UNCHANGED <<hostVars, appVars, mgrA, mgrE, probesLeft,
                   otherWritesLeft, latest>>

\* Another client wants the line: the manager probes the host down.
MgrProbe ==
    \E a \in Addrs, o \in ProbeOps, cap \in ProbeCaps :
       /\ probesLeft > 0
       /\ txn[a] = "none" /\ dir[a] # "ToN"
       /\ toHost' = Append(toHost, Msg(o, a, cap, 0, None))
       /\ txn' = [txn EXCEPT ![a] = "probe"]
       /\ probesLeft' = probesLeft - 1
       /\ UNCHANGED <<hostVars, appVars, mgrA, mgrC, mgrE, dir, mem,
                      otherWritesLeft, latest>>

\* Another client, holding the line while the host holds nothing, writes.
OtherWrite ==
    \E a \in Addrs, v \in Values :
       /\ otherWritesLeft > 0
       /\ txn[a] = "none" /\ dir[a] = "ToN"
       /\ mem' = [mem EXCEPT ![a] = v]
       /\ latest' = [latest EXCEPT ![a] = v]
       /\ otherWritesLeft' = otherWritesLeft - 1
       /\ UNCHANGED <<hostVars, appVars, mgrA, mgrC, mgrE, toHost, dir, txn,
                      probesLeft>>
-----------------------------------------------------------------------------
Next ==
    \/ \E t \in Threads : \/ AppStart(t) \/ AppAccess(t) \/ AppGranted(t)
                          \/ AppInstall(t) \/ AppRelease(t) \/ AppReleased(t)
                          \/ AppReleaseAll(t) \/ AppReleaseNext(t)
                          \/ AppReleaseAllDone(t)
    \/ TickSend \/ TickProbe \/ TickProbesDone
    \/ HostRecv
    \/ MgrAcquire \/ MgrGrantAck \/ MgrRecvC \/ MgrProbe \/ OtherWrite

\* The tick and receive threads loop forever; the manager serves its
\* queues; a thread inside a call keeps running.  add_probe waits for the
\* probes mutex, which the tick thread takes on every tick: the receive
\* thread gets it because parking_lot's mutex is eventually fair, hence SF.
\* Starting a call and the other clients' requests are not forced.
Fairness ==
    /\ WF_vars(TickSend) /\ WF_vars(TickProbe) /\ WF_vars(TickProbesDone)
    /\ SF_vars(HostRecv)
    /\ WF_vars(MgrAcquire) /\ WF_vars(MgrGrantAck) /\ WF_vars(MgrRecvC)
    /\ \A t \in Threads : /\ WF_vars(AppRead(t)) /\ WF_vars(AppWrite(t))
                          /\ WF_vars(AppRmw(t)) /\ WF_vars(AppGranted(t))
                          /\ WF_vars(AppInstall(t)) /\ WF_vars(AppRelease(t))
                          /\ WF_vars(AppReleased(t)) /\ WF_vars(AppReleaseAll(t))
                          /\ WF_vars(AppReleaseNext(t))
                          /\ WF_vars(AppReleaseAllDone(t))

Spec == Init /\ [][Next]_vars
FairSpec == Spec /\ Fairness
-----------------------------------------------------------------------------
(* Properties.                                                             *)

TypeOK ==
    /\ entry \in [Addrs -> Entries]
    /\ lockOwner \in [Addrs -> Threads \cup {None}]
    /\ probes \in Seq(Msgs) /\ kept \in Seq(Msgs)
    /\ tickPc \in {"send", "probes"}
    /\ ops \in Seq(Msgs)
    /\ completion \in [Threads -> Msgs \cup {None}]
    /\ pc \in [Threads -> {"idle", "check", "wait", "install", "relWait",
                           "relAll", "relAllWait"}]
    /\ relLeft \in [Threads -> SUBSET Addrs]
    /\ op \in [Threads -> Ops]
    /\ opsLeft \in [Threads -> 0 .. MaxOps]
    /\ grantData \in [Threads -> Values]
    /\ {mgrA, mgrC, mgrE, toHost} \subseteq Seq(Msgs)
    /\ dir \in [Addrs -> Caps] /\ mem \in [Addrs -> Values]
    /\ txn \in [Addrs -> {"none", "grant", "probe"}]
    /\ latest \in [Addrs -> Values]

\* Cache safety (spec.md §6, property 5): a line the cache would serve a
\* read from holds the last value written to that address by anyone.  It
\* takes the writeback paths to hold: handle_release must send a modified
\* line as ReleaseData, a probe must hand the dirty data back, and the
\* manager must have it before it grants the line again.
DataCoherent ==
    \A a \in Addrs : Usable(entry[a], "read") => entry[a].data = latest[a]

\* Every call a thread makes into the cache returns (spec.md §6: no
\* operation suspends without progress from the peer).
OpsComplete == \A t \in Threads : pc[t] # "idle" ~> pc[t] = "idle"

\* Probe liveness (spec.md §6, property 6): every probe the manager sends
\* is answered.
ProbeAnswered == \A a \in Addrs : txn[a] = "probe" ~> txn[a] # "probe"
====
