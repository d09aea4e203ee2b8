--------------------------- MODULE CommandListing ---------------------------
(***************************************************************************)
(* GET /api/control/commands: an operator pages through control_history,   *)
(* newest first, while commands of operators and of rules are added and    *)
(* the oldest ones are dropped.                                            *)
(*                                                                         *)
(* Commands are numbered in the order of their timestamps, which differ.   *)
(* An operator's is taken when it is posted, and its row comes later or    *)
(* never; a rule's is taken by the db-writer as it inserts the row.        *)
(* All are of one site; what became of a command is in ControlHistory.     *)
(***************************************************************************)
EXTENDS Naturals, FiniteSets

CONSTANTS
    Devices, Issuers,
    OperatorRequests, \* the commands that operators may ask for
    RuleRequests,     \* the commands that the rules may send
    MaxPageSize,     \* 1000 in the code
    PageSizes,       \* the page sizes a reader may ask for
    MaxCommands      \* bound: commands asked for

(* Per action of an operator, which the request's schema limits to these:  *)
(* command_type and what its payload holds, a mode, a ratio or a power.    *)
StoredAs ==
    [START_CHARGE      |-> <<"ess_mode", "charge">>,
     STOP_CHARGE       |-> <<"ess_mode", "standby">>,
     START_DISCHARGE   |-> <<"ess_mode", "discharge">>,
     STOP_DISCHARGE    |-> <<"ess_mode", "standby">>,
     STANDBY           |-> <<"ess_mode", "standby">>,
     START_GENERATOR   |-> <<"start", "nothing">>,
     STOP_GENERATOR    |-> <<"stop", "nothing">>,
     SHED_LOAD         |-> <<"load_shed", "some">>,
     RESTORE_LOAD      |-> <<"load_shed", "zero">>,
     OPEN_SWITCH       |-> <<"open", "nothing">>,
     CLOSE_SWITCH      |-> <<"close", "nothing">>,
     SET_POWER_LIMIT   |-> <<"update_device_spec", "nothing">>]

Actions == DOMAIN StoredAs

(* Per order of the rules, which bring these with them: ess.py:125-134,    *)
(* diesel.py:162-195, solar.py:30-63 and safety.py:348-369.                *)
RuleOrders ==
    [ESS_CHARGE        |-> <<"ess_mode", "charge">>,
     ESS_DISCHARGE     |-> <<"ess_mode", "discharge">>,
     ESS_STANDBY       |-> <<"ess_mode", "standby">>,
     DIESEL_START      |-> <<"start", "nothing">>,
     DIESEL_STOP       |-> <<"stop", "nothing">>,
     DIESEL_LOAD       |-> <<"load_control", "power">>,
     SOLAR_LIMIT       |-> <<"curtailment", "power">>,
     SOLAR_CLEAR       |-> <<"clear_curtailment", "nothing">>]

Upper ==
    [ess_mode |-> "ESS_MODE", load_control |-> "LOAD_CONTROL",
     curtailment |-> "CURTAILMENT", clear_curtailment |-> "CLEAR_CURTAILMENT"]

(* The way back from a row to an action; what no case names is its type in *)
(* capitals.                                                               *)
ActionFromDb(type, held) ==
    CASE type = "ess_mode" /\ held = "charge"    -> "START_CHARGE"
      [] type = "ess_mode" /\ held = "discharge" -> "START_DISCHARGE"
      [] type = "ess_mode" /\ held = "standby"   -> "STANDBY"
      [] type = "start"     -> "START_GENERATOR"
      [] type = "stop"      -> "STOP_GENERATOR"
      [] type = "open"      -> "OPEN_SWITCH"
      [] type = "close"     -> "CLOSE_SWITCH"
      [] type = "load_shed" -> IF held = "zero" THEN "RESTORE_LOAD" ELSE "SHED_LOAD"
      [] type = "update_device_spec" -> "SET_POWER_LIMIT"
      [] OTHER -> Upper[type]

ASSUME RequestsAssumption ==
    /\ OperatorRequests \subseteq [device : Devices, by : Issuers, action : Actions]
    /\ RuleRequests \subseteq [device : Devices, by : {"rule"}, action : DOMAIN RuleOrders]
ASSUME SizesAssumption ==
    /\ MaxPageSize \in Nat \ {0}
    /\ PageSizes \subseteq Nat \ {0}
ASSUME CommandsAssumption == MaxCommands \in Nat

NoRequest == [device |-> "none", by |-> "none", action |-> "none"]
Commands  == 1 .. MaxCommands

VARIABLES
    asked,   \* per command: what was asked for
    count,   \* commands asked for so far
    kept,    \* control_history: the commands that have a row
    dropped, \* commands up to this one are older than the retention
    reader,  \* at, filter, size and number of the next page
    start,   \* history: the rows that matched when the reader began
    told     \* per command: the action the reader was told, or "none"

listVars == <<asked, count, kept, dropped, reader, start, told>>

(* "any" is a parameter that is not given. *)
Filters == [device : Devices \union {"any"}, by : Issuers \union {"any"}]

ListInit ==
    /\ asked = [c \in Commands |-> NoRequest]
    /\ count = 0
    /\ kept = {}
    /\ dropped = 0
    /\ reader = [at |-> "idle", filter |-> [device |-> "any", by |-> "any"], size |-> 1, page |-> 1]
    /\ start = {}
    /\ told = [c \in Commands |-> "none"]

-----------------------------------------------------------------------------
(* The table *)

(* The next timestamp is that of this command. *)
Stamp(r) ==
    /\ count < MaxCommands
    /\ count' = count + 1
    /\ asked' = [asked EXCEPT ![count + 1] = r]
    /\ UNCHANGED <<dropped, reader, start, told>>

(* POST /operator-commands, which sends its timestamp with the command. *)
Issue(r) == Stamp(r) /\ UNCHANGED kept

(* The db-writer's INSERT of a command the rule loop sent: it comes with   *)
(* no timestamp and gets the present one.                                  *)
InsertRuleCommand(r) == Stamp(r) /\ kept' = kept \union {count + 1}

(* The db-writer's INSERT of an operator's command, which may come after   *)
(* that of a later one or never.                                           *)
Write(c) ==
    /\ c \in (dropped + 1 .. count) \ kept
    /\ kept' = kept \union {c}
    /\ UNCHANGED <<asked, count, dropped, reader, start, told>>

(* The retention policy drops what is older than some time. *)
Drop(c) ==
    /\ c \in dropped + 1 .. count
    /\ dropped' = c
    /\ kept' = {d \in kept : d > c}
    /\ UNCHANGED <<asked, count, reader, start, told>>

-----------------------------------------------------------------------------
(* The reader *)

Passes(value, filter) == filter = "any" \/ value = filter

Matching(f) == {c \in kept : Passes(asked[c].device, f.device) /\ Passes(asked[c].by, f.by)}

(* Rows that ORDER BY time DESC puts before c. *)
Before(c, S) == {d \in S : d > c}

Limit(size) == IF size < MaxPageSize THEN size ELSE MaxPageSize

(* Mutant: the offset is of the page size before it is limited. *)
UnlimitedOffset(page, size) == (page - 1) * size

Offset(page, size) == (page - 1) * Limit(size)

Page(f, page, size) ==
    {c \in Matching(f) :
        LET n == Cardinality(Before(c, Matching(f)))
        IN  n >= Offset(page, size) /\ n < Offset(page, size) + Limit(size)}

StartListing(f, size) ==
    /\ reader.at = "idle"
    /\ reader' = [at |-> "reading", filter |-> f, size |-> size, page |-> 1]
    /\ start' = Matching(f)
    /\ UNCHANGED <<asked, count, kept, dropped, told>>

StoredOrder(action) == IF action \in Actions THEN StoredAs[action] ELSE RuleOrders[action]

ListedAction(c) == LET s == StoredOrder(asked[c].action) IN ActionFromDb(s[1], s[2])

RequestedPage == Page(reader.filter, reader.page, reader.size)

(* One GET: the reader takes the next page until one is empty. *)
GetPage ==
    /\ reader.at = "reading"
    /\ LET page == RequestedPage IN
        /\ told' = [c \in Commands |-> IF c \in page THEN ListedAction(c) ELSE told[c]]
        /\ reader' = IF page = {} THEN [reader EXCEPT !.at = "done"]
                                  ELSE [reader EXCEPT !.page = @ + 1]
    /\ UNCHANGED <<asked, count, kept, dropped, start>>

ListNext ==
    \/ \E r \in OperatorRequests : Issue(r)
    \/ \E r \in RuleRequests : InsertRuleCommand(r)
    \/ \E c \in Commands : Write(c) \/ Drop(c)
    \/ \E f \in Filters, size \in PageSizes : StartListing(f, size)
    \/ GetPage

ListSpec == ListInit /\ [][ListNext]_listVars

-----------------------------------------------------------------------------
(* Properties *)

(* An operator's command is told by the action asked for, but that to stop *)
(* charging or discharging is to stand by; a rule's by the operator's      *)
(* action of the same effect, or, where operators have none, by a name of  *)
(* its own, which is none of CommandAction (control-api.md:106).           *)
ToldAs(action) ==
    CASE action \in {"STOP_CHARGE", "STOP_DISCHARGE", "ESS_STANDBY"} -> "STANDBY"
      [] action = "ESS_CHARGE"    -> "START_CHARGE"
      [] action = "ESS_DISCHARGE" -> "START_DISCHARGE"
      [] action = "DIESEL_START"  -> "START_GENERATOR"
      [] action = "DIESEL_STOP"   -> "STOP_GENERATOR"
      [] action = "DIESEL_LOAD"   -> "LOAD_CONTROL"
      [] action = "SOLAR_LIMIT"   -> "CURTAILMENT"
      [] action = "SOLAR_CLEAR"   -> "CLEAR_CURTAILMENT"
      [] OTHER -> action

(* A reader who reached an empty page was told of every command that       *)
(* matched when it began and is still kept, as ToldAs says: no page skips  *)
(* a row, whatever is written late or dropped between the pages and        *)
(* however large a page it asked for (api.py:583-616), and no action is    *)
(* taken for another on the way into the table and back (382-398, 421-444).*)
ListingIsWhole ==
    reader.at = "done" =>
        \A c \in start : c > dropped => told[c] = ToldAs(asked[c].action)

(* What the reader was told of after some pages are the newest rows, as    *)
(* many as were on them: the next page goes on where the last one ended    *)
(* (api.py:583-585).                                                       *)
PagesGoOn ==
    reader.at = "reading" =>
        \A c \in start \intersect kept :
            Cardinality(Before(c, Matching(reader.filter))) < Offset(reader.page, reader.size) =>
                told[c] # "none"
=============================================================================
