--------------------------- MODULE ControlHistory ---------------------------
(***************************************************************************)
(* The control_history table: what the command path asks mg:db:write to    *)
(* record, as the db-writer carries it out.  The db-writer is the only     *)
(* consumer and takes the entries in order; entries about different        *)
(* commands touch different rows, so only the order per command matters.   *)
(***************************************************************************)
EXTENDS ClosedLoop

CONSTANTS
    DbFails,  \* may an entry fail in the db-writer?
    StaleRows \* does the run last longer than the five minutes after which
              \* a PENDING row is cleaned up?

ASSUME HistoryAssumption == DbFails \in BOOLEAN /\ StaleRows \in BOOLEAN

VARIABLES
    row,  \* per command id: its row
    taken \* per command id: how many of its entries the db-writer has consumed

historyVars == <<loopVars, row, taken>>

NoRow == [status |-> "none", verified |-> "null"]
Rows  == [status : {"none", "PENDING"} \union Verdicts, verified : {"null", "true", "false"}]

InitHistory ==
    /\ InitLoop
    /\ row = [c \in Ids |-> NoRow]
    /\ taken = [c \in Ids |-> 0]

-----------------------------------------------------------------------------
(* Mutants: an ack_status that is not recognised counts as ACCEPTED; a      *)
(* verification leaves the status as it is; the clean-up takes every row.   *)
UpdateByDefault(r, kind) ==
    IF r.status = "none" THEN r
    ELSE [status |-> IF kind = "REJECTED" THEN kind ELSE "ACCEPTED", verified |-> r.verified]

UpdateVerifiedOnly(r, kind) ==
    IF r.status = "none" THEN r
    ELSE CASE kind = "VERIFIED"   -> [r EXCEPT !.verified = "true"]
           [] kind = "UNVERIFIED" -> [r EXCEPT !.verified = "false"]
           [] OTHER               -> [r EXCEPT !.status = kind]

(* INSERT, or UPDATE ... WHERE command_id, which changes nothing when there *)
(* is no such row.  mark_verified writes ACCEPTED again with its result.    *)
Insert(r) == [status |-> "PENDING", verified |-> "null"]

Update(r, kind) ==
    IF r.status = "none" THEN r
    ELSE CASE kind = "VERIFIED"   -> [status |-> "ACCEPTED", verified |-> "true"]
           [] kind = "UNVERIFIED" -> [status |-> "ACCEPTED", verified |-> "false"]
           [] OTHER               -> [r EXCEPT !.status = kind]

Apply(r, kind) == IF kind = "PENDING" THEN Insert(r) ELSE Update(r, kind)

Entry(c) == writes[c][taken[c] + 1]
Waiting(c) == taken[c] < Len(writes[c])

(* _handle_db_write for the next entry about c. *)
HistoryApply(c) ==
    /\ Waiting(c)
    /\ row' = [row EXCEPT ![c] = Apply(@, Entry(c))]
    /\ taken' = [taken EXCEPT ![c] = @ + 1]
    /\ UNCHANGED loopVars

(* The statement fails, or the db-writer stops with the entry in hand: it   *)
(* stays in the pending list of the consumer group, which nobody reads.     *)
HistoryLoses(c) ==
    /\ DbFails
    /\ Waiting(c)
    /\ taken' = [taken EXCEPT ![c] = @ + 1]
    /\ UNCHANGED <<loopVars, row>>

(* Mutant: the clean-up takes whatever has no verification result. *)
StaleUnverified(r) == r.status # "none" /\ r.verified = "null"

IsStale(r) == r.status = "PENDING"

(* timeout_stale_pending_commands. *)
StaleTimeout(c) ==
    /\ StaleRows
    /\ IsStale(row[c])
    /\ row' = [row EXCEPT ![c].status = "TIMEOUT"]
    /\ UNCHANGED <<loopVars, taken>>

NextHistory ==
    \/ NextLoop /\ UNCHANGED <<row, taken>>
    \/ \E c \in Ids : HistoryApply(c) \/ HistoryLoses(c) \/ StaleTimeout(c)

HistorySpec == InitHistory /\ [][NextHistory]_historyVars

-----------------------------------------------------------------------------
(* Properties *)

(* A row never claims an answer that did not come: ACCEPTED or REJECTED    *)
(* only for a command whose ACK was received, and a verification result    *)
(* only beside ACCEPTED, whatever cleaned it up or was lost before         *)
(* (timescale_writer.py:139-181).                                          *)
AnswerRowsAreTrue ==
    \A c \in Ids :
        /\ row[c].status \in {"ACCEPTED", "REJECTED"} => cmd[c].fate = "acked"
        /\ row[c].verified # "null" => row[c].status = "ACCEPTED"

(* An answer, once in the table, is never replaced by another status.      *)
AnswerIsFinal ==
    [][\A c \in Ids : row[c].status \in {"ACCEPTED", "REJECTED"} =>
          row'[c].status = row[c].status]_row

-----------------------------------------------------------------------------
(* The inductive invariant behind these properties: a row holds what was   *)
(* taken from the stream.                                                  *)
Took(c, kind) == \E k \in 1 .. taken[c] : writes[c][k] = kind

RowInv ==
    /\ row \in [Ids -> Rows]
    /\ taken \in [Ids -> Nat]
    /\ \A c \in Ids :
        /\ taken[c] <= Len(writes[c])
        /\ row[c].status # "none" => Took(c, "PENDING")
        /\ row[c].status \in {"ACCEPTED", "REJECTED"} => Took(c, row[c].status)
        /\ row[c].verified # "null" => row[c].status = "ACCEPTED"
=============================================================================
