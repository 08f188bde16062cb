------------------------------- MODULE DialRace -------------------------------
(***************************************************************************)
(* One call of race_endpoints: the candidates of an endpoint race, the     *)
(* selection permit, the guards that close candidates, the second race on  *)
(* a recovery endpoint, the peer that may register what is confirmed to    *)
(* it, a caller that gives up, and shutdown.                               *)
(*                                                                         *)
(* A connection is a pair <<attempt, candidate>>.  The answer of           *)
(* register_session is an input here (SessionRegistry decides it).  The    *)
(* permits of handshake_gate are shared with every other handshake of the  *)
(* process, so waiting for one either succeeds or times out.               *)
(***************************************************************************)
EXTENDS Naturals, FiniteSets

CONSTANTS
    Count,        \* number of unique canonical addresses, at most 16
    Capacity,     \* candidates past the capacity semaphore
    Retryable,    \* the kind is neither DiscoveryProbe nor Pairing
    None          \* no connection

Candidates == 1..Count
Attempts == {1, 2}
Connections == Attempts \X Candidates

VARIABLES
    attempt,     \* 1: on the listener socket; 2: on the recovery endpoint
    phase,       \* phase of each candidate task of this attempt
    alive,       \* connections not closed at this end
    selection,   \* connection whose task or Session holds the selection permit
    sent,        \* connections this end has sent its SessionAccepted on
    joined,      \* failed candidates the loop has taken from the JoinSet
    pathTimedOut, authFailed,
    race,        \* where the caller's future stands
    winner,      \* connection of the Session taken from the JoinSet
    seen,        \* connections the peer has registered
    peerTable,   \* connection in the peer's session table
    peerClosed,  \* connections the peer has closed as replaced
    halt,        \* progress of shutdown
    recoveryClosed   \* shutdown has closed the recovery endpoint of this call

race_vars == <<attempt, phase, selection, sent, joined, pathTimedOut, authFailed, race, winner>>
peer_vars == <<seen, peerTable, peerClosed>>
halt_vars == <<halt, recoveryClosed>>
vars == <<race_vars, alive, peer_vars, halt_vars>>

Conn(c) == <<attempt, c>>
Active == {"sleeping", "capacity", "global", "quic", "auth", "selecting", "confirming"}
Dialing == {"global", "quic", "auth", "selecting", "confirming"}
Authenticating == {"auth", "selecting", "confirming"}
Over == {"returned", "failed", "dropped"}

(* The socket of an attempt accepts no more work.  A recovery endpoint     *)
(* that shutdown does not find in the list stays open.                     *)
EndpointClosed == IF attempt = 1 THEN halt \in {"listener", "down"} ELSE recoveryClosed

-----------------------------------------------------------------------------
Asleep == [c \in Candidates |-> "sleeping"]

Init ==
    /\ attempt = 1
    /\ phase = Asleep
    /\ selection = None
    /\ joined = {}
    /\ pathTimedOut = FALSE
    /\ authFailed = FALSE
    /\ winner = None
    /\ alive = {}
    /\ sent = {}
    /\ race = "racing"
    /\ seen = {}
    /\ peerTable = None
    /\ peerClosed = {}
    /\ halt = "running"
    /\ recoveryClosed = FALSE

Move(c, from, to) ==
    /\ phase[c] = from
    /\ phase' = [phase EXCEPT ![c] = to]

(* The sleeps of the candidates end in the order of their indices.         *)
Wake(c) ==
    /\ c > 1 => phase[c - 1] # "sleeping"
    /\ Move(c, "sleeping", "capacity")
    /\ UNCHANGED <<attempt, alive, selection, sent, joined, pathTimedOut, authFailed, race,
                   winner, peer_vars, halt_vars>>

AcquireCapacity(c) ==
    /\ Cardinality({d \in Candidates : phase[d] \in Dialing}) < Capacity
    /\ Move(c, "capacity", "global")
    /\ UNCHANGED <<attempt, alive, selection, sent, joined, pathTimedOut, authFailed, race,
                   winner, peer_vars, halt_vars>>

AcquireGlobal(c) ==
    /\ Move(c, "global", "quic")
    /\ UNCHANGED <<attempt, alive, selection, sent, joined, pathTimedOut, authFailed, race,
                   winner, peer_vars, halt_vars>>

(* The QUIC handshake completes and the guard is armed.                    *)
Connected(c) ==
    /\ ~EndpointClosed
    /\ Move(c, "quic", "auth")
    /\ alive' = alive \cup {Conn(c)}
    /\ UNCHANGED <<attempt, selection, sent, joined, pathTimedOut, authFailed, race, winner,
                   peer_vars, halt_vars>>

(* Certificate, signature and pairing of the peer are verified.            *)
Verify(c) ==
    /\ Conn(c) \in alive
    /\ Move(c, "auth", "selecting")
    /\ UNCHANGED <<attempt, alive, selection, sent, joined, pathTimedOut, authFailed, race,
                   winner, peer_vars, halt_vars>>

(* Mutant: candidates confirm without the selection permit.                *)
ConfirmUnselected(c) ==
    /\ Conn(c) \in alive
    /\ Move(c, "selecting", "confirming")
    /\ selection' = Conn(c)
    /\ sent' = sent \cup {Conn(c)}
    /\ UNCHANGED <<attempt, alive, joined, pathTimedOut, authFailed, race, winner, peer_vars,
                   halt_vars>>

(* The candidate takes the only selection permit and sends its             *)
(* SessionAccepted.                                                        *)
Confirm(c) ==
    /\ Conn(c) \in alive
    /\ selection = None
    /\ Move(c, "selecting", "confirming")
    /\ selection' = Conn(c)
    /\ sent' = sent \cup {Conn(c)}
    /\ UNCHANGED <<attempt, alive, joined, pathTimedOut, authFailed, race, winner, peer_vars,
                   halt_vars>>

(* The peer's SessionAccepted is read; the Session keeps the permit.       *)
Finish(c) ==
    /\ Conn(c) \in alive
    /\ Move(c, "confirming", "finished")
    /\ UNCHANGED <<attempt, alive, selection, sent, joined, pathTimedOut, authFailed, race,
                   winner, peer_vars, halt_vars>>

Unselect(c) == selection' = IF selection = Conn(c) THEN None ELSE selection

(* How a task can end badly: it times out in any phase; the QUIC handshake *)
(* gets no answer or an error; authentication fails.                       *)
Failures(p) ==
    CASE p \in {"capacity", "global"} -> {"failed_waiting"}
      [] p = "quic" -> {"failed_silent", "failed_quic"}
      [] p \in Authenticating -> {"failed_auth"}
      [] OTHER -> {}

(* Mutant: the guard of a failed candidate does not close its connection.  *)
FailUnguarded(c, how) ==
    /\ how \in Failures(phase[c])
    /\ phase' = [phase EXCEPT ![c] = how]
    /\ Unselect(c)
    /\ UNCHANGED <<attempt, alive, sent, joined, pathTimedOut, authFailed, race, winner,
                   peer_vars, halt_vars>>

Fail(c, how) ==
    /\ how \in Failures(phase[c])
    /\ phase' = [phase EXCEPT ![c] = how]
    /\ alive' = alive \ {Conn(c)}
    /\ Unselect(c)
    /\ UNCHANGED <<attempt, sent, joined, pathTimedOut, authFailed, race, winner, peer_vars,
                   halt_vars>>

-----------------------------------------------------------------------------
Failed == {"failed_waiting", "failed_silent", "failed_quic", "failed_auth"}

(* Mutant: only the QUIC phase is looked at, not the authentication.       *)
JoinFailedForgetsAuth(c) ==
    /\ race = "racing"
    /\ phase[c] \in Failed
    /\ c \notin joined
    /\ joined' = joined \cup {c}
    /\ pathTimedOut' = (pathTimedOut \/ phase[c] = "failed_silent")
    /\ UNCHANGED <<attempt, phase, alive, selection, sent, authFailed, race, winner, peer_vars,
                   halt_vars>>

(* The loop takes a failed candidate from the JoinSet.                     *)
JoinFailed(c) ==
    /\ race = "racing"
    /\ phase[c] \in Failed
    /\ c \notin joined
    /\ joined' = joined \cup {c}
    /\ pathTimedOut' = (pathTimedOut \/ phase[c] = "failed_silent")
    /\ authFailed' = (authFailed \/ phase[c] = "failed_auth")
    /\ UNCHANGED <<attempt, phase, alive, selection, sent, race, winner, peer_vars, halt_vars>>

(* The loop takes the winner and starts candidates.shutdown().             *)
JoinWinner(c) ==
    /\ race = "racing"
    /\ phase[c] = "finished"
    /\ race' = "cancelling"
    /\ winner' = Conn(c)
    /\ phase' = [phase EXCEPT ![c] = "joined"]
    /\ UNCHANGED <<attempt, alive, selection, sent, joined, pathTimedOut, authFailed, peer_vars,
                   halt_vars>>

(* Mutant: a result nobody has joined is not dropped.                      *)
CancelSparesFinished(c) ==
    /\ race \in {"cancelling", "dropped"}
    /\ phase[c] \in Active
    /\ phase' = [phase EXCEPT ![c] = "cancelled"]
    /\ alive' = alive \ {Conn(c)}
    /\ Unselect(c)
    /\ UNCHANGED <<attempt, sent, joined, pathTimedOut, authFailed, race, winner, peer_vars,
                   halt_vars>>

(* An aborted task is dropped at its await, or its unclaimed result is.    *)
Cancel(c) ==
    /\ race \in {"cancelling", "dropped"}
    /\ phase[c] \in Active \cup {"finished"}
    /\ phase' = [phase EXCEPT ![c] = "cancelled"]
    /\ alive' = alive \ {Conn(c)}
    /\ Unselect(c)
    /\ UNCHANGED <<attempt, sent, joined, pathTimedOut, authFailed, race, winner, peer_vars,
                   halt_vars>>

(* shutdown() has ended every other task; register_session answers with    *)
(* the session itself, with a live one that ranks before it, or an error.  *)
Register(answer) ==
    /\ race = "cancelling"
    /\ \A c \in Candidates : phase[c] \notin Active \cup {"finished"}
    /\ race' = IF answer = "error" THEN "failed" ELSE "returned"
    /\ IF answer = "own" THEN UNCHANGED <<alive, winner, selection>>
       ELSE /\ alive' = alive \ {winner}
            /\ winner' = None
            /\ selection' = None
    /\ UNCHANGED <<attempt, phase, sent, joined, pathTimedOut, authFailed, peer_vars, halt_vars>>

AllFailed == race = "racing" /\ joined = Candidates

(* Only an unanswered path earns a second race, never an authentication    *)
(* failure, and only for persistent kinds.                                 *)
Recoverable == attempt = 1 /\ Retryable /\ pathTimedOut /\ ~authFailed

GiveUp ==
    /\ AllFailed
    /\ ~Recoverable
    /\ race' = "failed"
    /\ UNCHANGED <<attempt, phase, alive, selection, sent, joined, pathTimedOut, authFailed,
                   winner, peer_vars, halt_vars>>

(* Mutant: shutdown is not looked at under the endpoint list's lock.       *)
LockEndpointsUnchecked ==
    /\ AllFailed
    /\ Recoverable
    /\ race' = "creating"
    /\ UNCHANGED <<attempt, phase, alive, selection, sent, joined, pathTimedOut, authFailed,
                   winner, peer_vars, halt_vars>>

(* new_recovery_endpoint takes the write lock of the endpoint list and     *)
(* looks at stopped.                                                       *)
LockEndpoints ==
    /\ AllFailed
    /\ Recoverable
    /\ race' = IF halt = "running" THEN "creating" ELSE "failed"
    /\ UNCHANGED <<attempt, phase, alive, selection, sent, joined, pathTimedOut, authFailed,
                   winner, peer_vars, halt_vars>>

(* The socket cannot be bound, or the endpoint not be made of it.          *)
RecoveryFails ==
    /\ race = "creating"
    /\ race' = "failed"
    /\ UNCHANGED <<attempt, phase, alive, selection, sent, joined, pathTimedOut, authFailed,
                   winner, peer_vars, halt_vars>>

(* Still under the lock, the endpoint is put into the list; the second     *)
(* race starts on it.                                                      *)
StartRecovery ==
    /\ race = "creating"
    /\ race' = "racing"
    /\ attempt' = 2
    /\ phase' = Asleep
    /\ joined' = {}
    /\ pathTimedOut' = FALSE
    /\ UNCHANGED <<alive, selection, sent, authFailed, winner, peer_vars, halt_vars>>

(* The caller drops the future of connect: the JoinSet aborts its tasks,   *)
(* an armed guard in hand closes the winner.                               *)
DropCall ==
    /\ race \in {"racing", "cancelling"}
    /\ race' = "dropped"
    /\ alive' = alive \ {winner}
    /\ selection' = IF winner = None THEN selection ELSE None
    /\ winner' = None
    /\ UNCHANGED <<attempt, phase, sent, joined, pathTimedOut, authFailed, peer_vars, halt_vars>>

-----------------------------------------------------------------------------
(* The peer reads a SessionAccepted and registers the connection: it comes *)
(* from the same initiator, so it replaces what is there.                  *)
PeerRegisters(x) ==
    /\ x \in sent \ seen
    /\ seen' = seen \cup {x}
    /\ peerTable' = x
    /\ peerClosed' = peerClosed \cup ({peerTable} \ {None})
    /\ UNCHANGED <<race_vars, alive, halt_vars>>

PeerCloseArrives(x) ==
    /\ x \in peerClosed \cap alive
    /\ alive' = alive \ {x}
    /\ UNCHANGED <<race_vars, peer_vars, halt_vars>>

(* shutdown: stopped is set, the listener is closed, then every endpoint   *)
(* of the list that is still owned by a race or a Session is closed.       *)
Stop ==
    /\ halt = "running"
    /\ halt' = "stopping"
    /\ UNCHANGED <<race_vars, alive, peer_vars, recoveryClosed>>

CloseListener ==
    /\ halt = "stopping"
    /\ halt' = "listener"
    /\ alive' = {x \in alive : x[1] # 1}
    /\ UNCHANGED <<race_vars, peer_vars, recoveryClosed>>

CloseListed ==
    /\ halt = "listener"
    /\ race # "creating"
    /\ halt' = "down"
    /\ recoveryClosed' = (attempt = 2 /\ race \in {"racing", "cancelling", "returned"})
    /\ alive' = IF recoveryClosed' THEN {} ELSE alive
    /\ UNCHANGED <<race_vars, peer_vars>>

CandidateStep(c) ==
    \/ Wake(c) \/ AcquireCapacity(c) \/ AcquireGlobal(c) \/ Connected(c) \/ Verify(c)
    \/ Confirm(c) \/ Finish(c)
    \/ \E how \in Failed : Fail(c, how)

CallStep ==
    \/ \E c \in Candidates : JoinFailed(c)
    \/ \E c \in Candidates : JoinWinner(c)
    \/ \E answer \in {"own", "other", "error"} : Register(answer)
    \/ GiveUp
    \/ LockEndpoints
    \/ RecoveryFails
    \/ StartRecovery

Next ==
    \/ \E c \in Candidates : CandidateStep(c)
    \/ \E c \in Candidates : Cancel(c)
    \/ CallStep
    \/ DropCall
    \/ \E x \in Connections : PeerRegisters(x)
    \/ \E x \in Connections : PeerCloseArrives(x)
    \/ Stop
    \/ CloseListener
    \/ CloseListed

(* The executor polls every task, and HANDSHAKE_TIMEOUT ends every phase   *)
(* of a candidate.  Nobody has to drop the call or to shut down, and the   *)
(* peer owes nothing.                                                      *)
Fairness ==
    /\ \A c \in Candidates : WF_vars(CandidateStep(c))
    /\ \A c \in Candidates : WF_vars(Cancel(c))
    /\ WF_vars(CallStep)

Spec == Init /\ [][Next]_vars /\ Fairness

-----------------------------------------------------------------------------
(* Types, and the permits: no more candidates dial than the capacity       *)
(* allows, and a candidate past the selection holds its permit.            *)
TypeOK ==
    /\ attempt \in Attempts
    /\ phase \in [Candidates -> Active \cup Failed \cup {"finished", "joined", "cancelled"}]
    /\ alive \subseteq Connections
    /\ Cardinality({c \in Candidates : phase[c] \in Dialing}) <= Capacity
    /\ selection \in Connections \cup {None}
    /\ \A c \in Candidates : phase[c] \in {"confirming", "finished"} => selection = Conn(c)
    /\ sent \subseteq Connections
    /\ joined \subseteq Candidates
    /\ pathTimedOut \in BOOLEAN /\ authFailed \in BOOLEAN
    /\ race \in Over \cup {"racing", "cancelling", "creating"}
    /\ winner \in Connections \cup {None}
    /\ seen \subseteq sent
    /\ peerTable \in seen \cup {None}
    /\ peerClosed \subseteq seen
    /\ halt \in {"running", "stopping", "listener", "down"}
    /\ recoveryClosed \in BOOLEAN

(* "Only one may confirm a session, so remote duplicate arbitration cannot *)
(* replace the winner with a slower candidate which the dialer is about to *)
(* cancel": once the loop has a winner, no other candidate has confirmed   *)
(* itself to the peer, unless it has failed after that.                    *)
NoRivalOfTheWinner ==
    winner # None =>
        \A c \in Candidates : Conn(c) \in sent \ {winner} => phase[c] = "failed_auth"

(* A call that has ended leaves no candidate connection behind but the one *)
(* it returned; a call that was dropped has only tasks still to be         *)
(* cancelled.                                                              *)
NoCandidateLeftBehind ==
    /\ race \in {"returned", "failed"} => alive \subseteq {winner}
    /\ race = "dropped" => alive \subseteq {Conn(c) : c \in {d \in Candidates :
                               phase[d] \in Authenticating \cup {"finished"}}}

(* The second race starts from nothing: no connection of the first one is  *)
(* open, and the peer was never sent a SessionAccepted on one, so it       *)
(* cannot register a connection of the first race against the second.      *)
RecoveryStartsClean ==
    attempt = 2 => \A x \in alive \cup sent : x[1] = 2

(* After shutdown no connection of the call is open, even when a recovery  *)
(* endpoint was being created meanwhile; only tasks of a dropped call may  *)
(* not have noticed yet.                                                   *)
ShutdownClosesTheRace ==
    halt = "down" /\ race # "dropped" => alive = {}

(* The call has ended and holds nothing but the session it returned.       *)
HasEnded == race \in Over /\ alive \subseteq {winner}
=============================================================================
