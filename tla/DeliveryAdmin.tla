---------------------------- MODULE DeliveryAdmin ----------------------------
(***************************************************************************)
(* Staff keep the delivery zones and rules that DeliveryCharge evaluates.  *)
(* A request validates its fields against the row as it read it, then      *)
(* writes those that differ from it; it locks nothing.  The status and the *)
(* scope of a rule are computed twice: from the row, for display, and by a *)
(* query, for the filters and counts of the overview.                      *)
(*                                                                         *)
(* What a targeting field points at is left out, only which are set stays. *)
(***************************************************************************)
EXTENDS DeliveryCharge

CONSTANTS Zones, RuleIds, Managers, Targetings,
          MaxRequests    \* bound on the requests that are made

ASSUME DeliveryAdminAssumption ==
  /\ NoZone \notin Zones /\ MaxRequests \in Nat /\ Today \in Int
  /\ Targetings \subseteq SUBSET {"variant", "product", "subcategory", "category"}

VARIABLES zoneRow,       \* [Zones -> "on", "off" or "gone"]
          ruleRow,       \* [RuleIds -> a row or NoRule]
          managed,       \* [Managers -> the request in progress]
          begun          \* how many requests were made

deliveryAdminVars == <<zoneRow, ruleRow, managed, begun>>

Moments == {Unset, Today - 1, Today, Today + 1}
NoRule == [exists |-> FALSE]
NewRule == [exists |-> TRUE, active |-> TRUE, zone |-> NoZone, targets |-> {},
            starts |-> Unset, ends |-> Unset, combine |-> "add", discount |-> FALSE]
AtRest == [does |-> "nothing"]

DeliveryAdminInit ==
  /\ zoneRow = [z \in Zones |-> "on"]
  /\ ruleRow = [r \in RuleIds |-> NoRule]
  /\ managed = [m \in Managers |-> AtRest]
  /\ begun = 0

Start(m, t) ==
  /\ managed[m] = AtRest /\ begun < MaxRequests
  /\ managed' = [managed EXCEPT ![m] = t]
  /\ begun' = begun + 1

ThereIs(z) == z # NoZone => zoneRow[z] # "gone"

-----------------------------------------------------------------------------
(* A rule.                                                                 *)

(* What a payload sets: one field at a time.                               *)
Payloads ==
  [{"active"} -> BOOLEAN]
  \cup [{"zone"} -> {z \in Zones \cup {NoZone} : ThereIs(z)}]
  \cup [{"targets"} -> Targetings]
  \cup [{"starts"} -> Moments] \cup [{"ends"} -> Moments]
  \cup [{"combine"} -> {"add", "override"}] \cup [{"discount"} -> BOOLEAN]

With(row, p) == [f \in DOMAIN row |-> IF f \in DOMAIN p THEN p[f] ELSE row[f]]

(* clean() and the check that spans the rule and its actions, on the       *)
(* fields of the payload and, for the others, of the row it was read from. *)
Sound(row) ==
  /\ row.starts # Unset /\ row.ends # Unset => row.starts <= row.ends
  /\ row.combine = "override" => ~row.discount

Create(m, r) ==
  /\ ruleRow[r] = NoRule
  /\ \E p \in Payloads :
       /\ Sound(With(NewRule, p))
       /\ Start(m, [does |-> "create", rule |-> r, row |-> With(NewRule, p)])
  /\ UNCHANGED <<zoneRow, ruleRow>>

Update(m, r) ==
  /\ ruleRow[r] # NoRule
  /\ \E p \in Payloads :
       /\ Sound(With(ruleRow[r], p))
       /\ Start(m, [does |-> "update", rule |-> r, read |-> ruleRow[r], set |-> p])
  /\ UNCHANGED <<zoneRow, ruleRow>>

(* The button reads the flag, and saves its opposite.                      *)
ToggleRule(m, r) ==
  /\ ruleRow[r] # NoRule
  /\ Start(m, [does |-> "update", rule |-> r, read |-> ruleRow[r],
               set |-> [f \in {"active"} |-> ~ruleRow[r].active]])
  /\ UNCHANGED <<zoneRow, ruleRow>>

(* The fields of t that differ from what it read, in the row as it is now. *)
Updated(t) ==
  [f \in DOMAIN ruleRow[t.rule] |->
     IF f \in DOMAIN t.set /\ t.set[f] # t.read[f] THEN t.set[f] ELSE ruleRow[t.rule][f]]

(* The zone it points at must still be there when it is saved.             *)
SaveRule(m) ==
  LET t == managed[m]
  IN  /\ \/ t.does = "create" /\ ruleRow[t.rule] = NoRule
            /\ ruleRow' = [ruleRow EXCEPT ![t.rule] = t.row]
         \/ t.does = "update" /\ ruleRow[t.rule] # NoRule
            /\ ruleRow' = [ruleRow EXCEPT ![t.rule] = Updated(t)]
      /\ ThereIs(ruleRow'[t.rule].zone)
      /\ managed' = [managed EXCEPT ![m] = AtRest]
      /\ UNCHANGED <<zoneRow, begun>>

DeleteRule(r) ==
  /\ ruleRow[r] # NoRule
  /\ ruleRow' = [ruleRow EXCEPT ![r] = NoRule]
  /\ UNCHANGED <<zoneRow, managed, begun>>

-----------------------------------------------------------------------------
(* A zone.                                                                 *)

Targeting(z) == {r \in RuleIds : ruleRow[r] # NoRule /\ ruleRow[r].zone = z}

SaveZone(z) ==
  /\ zoneRow[z] # "gone"
  /\ zoneRow' = [zoneRow EXCEPT ![z] = IF @ = "on" THEN "off" ELSE "on"]
  /\ UNCHANGED <<ruleRow, managed, begun>>

(* The rules of the zone are counted, and it is deleted when there is none. *)
CountRules(m, z) ==
  /\ zoneRow[z] # "gone" /\ Targeting(z) = {}
  /\ Start(m, [does |-> "delete zone", zone |-> z])
  /\ UNCHANGED <<zoneRow, ruleRow>>

(* Mutant: nothing goes with the zone, its rules were counted before.      *)
ZoneAlone(z) == ruleRow

(* The delete cascades to the rules it finds then.                         *)
WithoutZone(z) == [r \in RuleIds |-> IF r \in Targeting(z) THEN NoRule ELSE ruleRow[r]]

DeleteZone(m) ==
  /\ managed[m].does = "delete zone"
  /\ zoneRow' = [zoneRow EXCEPT ![managed[m].zone] = "gone"]
  /\ ruleRow' = WithoutZone(managed[m].zone)
  /\ managed' = [managed EXCEPT ![m] = AtRest]
  /\ UNCHANGED begun

(* A request that is refused by the database, or dies.                     *)
GiveUp(m) ==
  /\ managed[m] # AtRest
  /\ managed' = [managed EXCEPT ![m] = AtRest]
  /\ UNCHANGED <<zoneRow, ruleRow, begun>>

DeliveryAdminNext ==
  \/ \E m \in Managers, r \in RuleIds : Create(m, r) \/ Update(m, r) \/ ToggleRule(m, r)
  \/ \E m \in Managers, z \in Zones : CountRules(m, z)
  \/ \E m \in Managers : SaveRule(m) \/ DeleteZone(m) \/ GiveUp(m)
  \/ \E r \in RuleIds : DeleteRule(r)
  \/ \E z \in Zones : SaveZone(z)

DeliveryAdminSpec == DeliveryAdminInit /\ [][DeliveryAdminNext]_deliveryAdminVars

-----------------------------------------------------------------------------
(* Status and scope, from the row and by query.                            *)

ComputeRuleStatus(row) ==
  IF ~row.active THEN "inactive"
  ELSE IF row.starts # Unset /\ row.starts > Today THEN "scheduled"
  ELSE IF row.ends # Unset /\ row.ends < Today THEN "expired"
  ELSE "active"

Begun(row) == row.starts = Unset \/ row.starts <= Today

(* Mutant: what has ended is expired, whether or not it ever began.        *)
EndedIsExpired(status, row) ==
  CASE status = "inactive"  -> ~row.active
    [] status = "scheduled" -> row.active /\ row.starts # Unset /\ row.starts > Today
    [] status = "expired"   -> row.active /\ row.ends # Unset /\ row.ends < Today
    [] status = "active"    -> row.active /\ Begun(row) /\ (row.ends = Unset \/ row.ends >= Today)

StatusQuery(status, row) ==
  CASE status = "inactive"  -> ~row.active
    [] status = "scheduled" -> row.active /\ row.starts # Unset /\ row.starts > Today
    [] status = "expired"   -> row.active /\ Begun(row) /\ row.ends # Unset /\ row.ends < Today
    [] status = "active"    -> row.active /\ Begun(row) /\ (row.ends = Unset \/ row.ends >= Today)

ScopeOrder == <<"variant", "product", "subcategory", "category", "zone">>
IsSet(row) == row.targets \cup (IF row.zone = NoZone THEN {} ELSE {"zone"})

(* The most specific field that is set.                                    *)
ResolveRuleScope(row) ==
  IF IsSet(row) = {} THEN "global"
  ELSE ScopeOrder[Min({i \in DOMAIN ScopeOrder : ScopeOrder[i] \in IsSet(row)})]

(* Each query names the fields that must be null and the one that is not.  *)
ScopeQuery(scope, row) ==
  LET unset(kinds) == kinds \cap IsSet(row) = {}
  IN  CASE scope = "variant"     -> "variant" \in row.targets
        [] scope = "product"     -> unset({"variant"}) /\ "product" \in row.targets
        [] scope = "subcategory" -> unset({"variant", "product"}) /\ "subcategory" \in row.targets
        [] scope = "category"    -> unset({"variant", "product", "subcategory"})
                                    /\ "category" \in row.targets
        [] scope = "zone"        -> row.targets = {} /\ row.zone # NoZone
        [] scope = "global"      -> row.targets = {} /\ row.zone = NoZone

(* "Both flavors must stay logically identical" (rule_scope.py:25), and    *)
(* agree with the window the calculation applies: whatever requests left a *)
(* row behind, even a window that ends before it starts, exactly one       *)
(* status and one scope list it, those that it shows, and it is listed as  *)
(* active just when it is in force.                                        *)
StatusFilterAgrees ==
  \A r \in RuleIds : ruleRow[r] # NoRule =>
    LET row == ruleRow[r]
    IN  /\ {s \in {"inactive", "scheduled", "expired", "active"} : StatusQuery(s, row)}
             = {ComputeRuleStatus(row)}
        /\ {s \in Range(ScopeOrder) \cup {"global"} : ScopeQuery(s, row)} = {ResolveRuleScope(row)}
        /\ ComputeRuleStatus(row) = "active" <=> row.active /\ InForce(row)

(* A rule that names a zone has it: counting the rules of a zone before it *)
(* is deleted does not ensure it, a rule may be pointed at it in between.  *)
RulesHaveTheirZone ==
  \A r \in RuleIds : ruleRow[r] # NoRule => ThereIs(ruleRow[r].zone)
=============================================================================
