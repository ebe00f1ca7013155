---------------------------- MODULE SdkSingleton ----------------------------
(***************************************************************************)
(* CcnpSdk.inst() and CcnpSdk.__init__ (src/sdk/python3/ccnp/sdk.py; the  *)
(* CimaSdk in src/sdk/python3/cima/sdk.py is the same code), called by    *)
(* several threads of one process, against a CCNP server whose socket may *)
(* be absent, present but not ready, or ready, and may change at any time.*)
(*                                                                         *)
(* inst() tests _inst and then runs cls(), whose socket check and channel *)
(* wait (grpc.channel_ready_future(...).result(timeout=TIMEOUT)) block and *)
(* let other threads run before _inst is assigned.  inst() calls cls()    *)
(* with the default unix: path, so the ValueError branch is not reached.  *)
(***************************************************************************)
EXTENDS Naturals, FiniteSets

CONSTANTS
    Threads,     \* threads calling CcnpSdk.inst()
    MaxObjects,  \* bound on the CcnpSdk objects constructed in a run
    NoneValue    \* Python None

Instances == 1..MaxObjects

VARIABLES
    server,    \* "down" (no socket), "starting" (socket, not ready) or "up"
    inst,      \* CcnpSdk._inst
    created,   \* the CcnpSdk objects constructed so far
    ready,     \* the objects whose channel became ready and got a stub
    tpc,       \* per thread: "start", "init", "wait", "assign", "has", "raised"
    mine,      \* per thread: the object its cls() is building
    holds      \* per thread: what inst() returned

vars == <<server, inst, created, ready, tpc, mine, holds>>

Init ==
    /\ server \in {"down", "starting", "up"}
    /\ inst = NoneValue
    /\ created = {}
    /\ ready = {}
    /\ tpc = [t \in Threads |-> "start"]
    /\ mine = [t \in Threads |-> NoneValue]
    /\ holds = [t \in Threads |-> NoneValue]

-----------------------------------------------------------------------------
(* The server (environment).                                               *)

ServerChange ==
    /\ \E s \in {"down", "starting", "up"} \ {server} : server' = s
    /\ UNCHANGED <<inst, created, ready, tpc, mine, holds>>

-----------------------------------------------------------------------------
(* A thread in inst().                                                     *)

\* if cls._inst is None: build one; otherwise return it.
InstCheck(t) ==
    /\ tpc[t] = "start"
    /\ IF inst = NoneValue
         THEN tpc' = [tpc EXCEPT ![t] = "init"] /\ UNCHANGED holds
         ELSE tpc' = [tpc EXCEPT ![t] = "has"] /\ holds' = [holds EXCEPT ![t] = inst]
    /\ UNCHANGED <<server, inst, created, ready, mine>>

\* __init__: RuntimeError when the socket file does not exist; otherwise
\* create the channel and wait for it.
InitSocketCheck(t) ==
    LET o == CHOOSE i \in Instances : i \notin created IN
    /\ tpc[t] = "init"
    /\ Cardinality(created) < MaxObjects
    /\ IF server = "down"
         THEN /\ tpc' = [tpc EXCEPT ![t] = "raised"]
              /\ UNCHANGED <<created, mine>>
         ELSE /\ created' = created \cup {o}
              /\ mine' = [mine EXCEPT ![t] = o]
              /\ tpc' = [tpc EXCEPT ![t] = "wait"]
    /\ UNCHANGED <<server, inst, ready, holds>>

\* The channel becomes ready: the stub is created and cls() returns.
ChannelReady(t) ==
    /\ tpc[t] = "wait"
    /\ server = "up"
    /\ ready' = ready \cup {mine[t]}
    /\ tpc' = [tpc EXCEPT ![t] = "assign"]
    /\ UNCHANGED <<server, inst, created, mine, holds>>

\* Mutant: the channel is awaited with no timeout.
ChannelTimeoutNever(t) == FALSE

\* FutureTimeoutError after TIMEOUT seconds: ConnectionRefusedError.
ChannelTimeout(t) ==
    /\ tpc[t] = "wait"
    /\ tpc' = [tpc EXCEPT ![t] = "raised"]
    /\ UNCHANGED <<server, inst, created, ready, mine, holds>>

\* cls._inst = cls(); return cls._inst
Assign(t) ==
    /\ tpc[t] = "assign"
    /\ inst' = mine[t]
    /\ holds' = [holds EXCEPT ![t] = mine[t]]
    /\ tpc' = [tpc EXCEPT ![t] = "has"]
    /\ UNCHANGED <<server, created, ready, mine>>

Next ==
    \/ ServerChange
    \/ \E t \in Threads :
          InstCheck(t) \/ InitSocketCheck(t) \/ ChannelReady(t)
          \/ ChannelTimeout(t) \/ Assign(t)

\* Threads are scheduled and the channel wait ends (ready or TIMEOUT); the
\* server is not assumed to come up.
Fairness ==
    \A t \in Threads :
        /\ WF_vars(InstCheck(t)) /\ WF_vars(InitSocketCheck(t))
        /\ WF_vars(ChannelTimeout(t)) /\ WF_vars(Assign(t))

Spec == Init /\ [][Next]_vars /\ Fairness

-----------------------------------------------------------------------------
(* Properties.                                                             *)

\* inst() is a "Singleton instance function": all threads that got an
\* object from it got the same one.
SingleInstance ==
    \A a, b \in Threads :
        tpc[a] = "has" /\ tpc[b] = "has" => holds[a] = holds[b]

=============================================================================
