------------------------------- MODULE Policy -------------------------------
(***************************************************************************)
(* Capability policies: the resolver of policy.rs, the policy of a tenant  *)
(* in its own stream, the policy a task gets when it is created, and the   *)
(* way of that policy to the sandbox: with every turn of the task onto the *)
(* stream task-begin-<type>, from there with the fixlet into a header of   *)
(* the agent's session, and with every call of a tool from that header     *)
(* through the tools bank onto the stream tool-invoke.                     *)
(*                                                                         *)
(* A path is a sequence of components ("." is left out by the parser), a   *)
(* scope a path with its trust, a policy a list of readable and a list of  *)
(* writable scopes and the egress rules.  The order of scopes is kept: the *)
(* resolver takes the first that overlaps.  Rules are compared as a whole  *)
(* and in no order, so they are a set.                                     *)
(***************************************************************************)
EXTENDS Integers, FiniteSets, SequencesExt

CONSTANTS
  Tasks,
  OperatorPolicies,  (* what the operator's file may hold                   *)
  TenantPolicies,    (* what is put as the policy of the tenant             *)
  TaskPolicies,      (* what a request for a task asks for                  *)
  Paths,             (* the paths a tool may ask for                        *)
  MaxSets,           (* bound: policies put for the tenant                  *)
  MaxRestarts        (* bound: starts of the server after the first         *)

(* A component of a path and an egress rule stand for themselves. *)
Scopes   == [path : Seq(STRING), trust : {"work_dir", "host", "remote"}]
Policies == [read : Seq(Scopes), write : Seq(Scopes), net : SUBSET STRING]

ASSUME PolicyAssumption ==
  /\ OperatorPolicies \cup TenantPolicies \cup TaskPolicies \subseteq Policies
  /\ Paths \subseteq Seq(STRING)
  /\ MaxSets \in Nat /\ MaxRestarts \in Nat

None == [absent |-> TRUE]                      \* Option::None
Null == [null |-> TRUE]                        \* Some(serde_json::Value::Null)
Strict == [read |-> <<>>, write |-> <<>>, net |-> {}]   \* the default

-----------------------------------------------------------------------------
(* policy.rs                                                               *)

normalize_path(path) ==
  LET parts[i \in 0 .. Len(path)] ==
        IF i = 0 THEN <<>>
        ELSE IF path[i] # ".." THEN Append(parts[i - 1], path[i])
        ELSE SubSeq(parts[i - 1], 1, Len(parts[i - 1]) - 1)
  IN  parts[Len(path)]

path_within(path, scope) ==
  IsPrefix(normalize_path(scope.path), normalize_path(path))

OneWay(sa, sb) == path_within(sa.path, sb)     \* variant: half of the test

Overlap(sa, sb) == path_within(sa.path, sb) \/ path_within(sb.path, sa)

push_if_new(out, s) ==
  IF \E i \in DOMAIN out : out[i].path = s.path THEN out ELSE Append(out, s)

TighterOf(sa, sb) == IF path_within(sa.path, sb) THEN sa ELSE sb

(* intersect_set: each scope of a with the first of b that overlaps. *)
Met(sa, out, b) ==
  LET k == SelectInSeq(b, LAMBDA sb : Overlap(sa, sb))
  IN  IF k = 0 THEN out ELSE push_if_new(out, TighterOf(sa, b[k]))

intersect_set(a, b) ==
  LET out[i \in 0 .. Len(a)] == IF i = 0 THEN <<>> ELSE Met(a[i], out[i - 1], b)
  IN  out[Len(a)]

Intersect(p, q) == [read  |-> intersect_set(p.read, q.read),
                    write |-> intersect_set(p.write, q.write),
                    net   |-> p.net \cap q.net]

(* retain: the scopes that a reader may write in. *)
InWorkDir(scopes) ==
  LET kept[i \in 0 .. Len(scopes)] ==
        IF i = 0 THEN <<>>
        ELSE IF scopes[i].trust = "work_dir" THEN Append(kept[i - 1], scopes[i])
        ELSE kept[i - 1]
  IN  kept[Len(scopes)]

role_narrow(p, role) ==
  IF role = "operator" THEN p
  ELSE [p EXCEPT !.net = {}, !.write = InWorkDir(@)]

ResolveTenant(operator, tenant, asked, role) == \* variant: tenant \in operator
  role_narrow(Intersect(tenant, asked), role)

resolve_effective(operator, tenant, asked, role) ==
  role_narrow(Intersect(Intersect(operator, tenant), asked), role)

Covered(child, parent) ==
  \A i \in DOMAIN child : \E j \in DOMAIN parent : path_within(child[i].path, parent[j])

validate_subset(child, parent) ==
  /\ Covered(child.read, parent.read) /\ Covered(child.write, parent.write)
  /\ child.net \subseteq parent.net

(* None: refused with 400. *)
resolve_and_validate(operator, tenant, asked, role) ==
  IF validate_subset(asked, tenant)
  THEN resolve_effective(operator, tenant, asked, role) ELSE None

(* parse_operator_toml normalizes; nothing else does. *)
Normalized(scopes) ==
  [i \in DOMAIN scopes |-> [scopes[i] EXCEPT !.path = normalize_path(@)]]
Loaded(p) == [p EXCEPT !.read = Normalized(@), !.write = Normalized(@)]

-----------------------------------------------------------------------------
VARIABLES
  operator,    (* AppState.operator_policy                                  *)
  tenantLog,   (* the stream tenant-policy-<tenant>                         *)
  place,       (* of each task: where its creation is                       *)
  asked,       (* the policy it asks for                                    *)
  role,        (* and its agent_role                                        *)
  tenantRead,  (* the tenant policy its creation read                       *)
  effective,   (* effective_policy of its task_created event                *)
  under,       (* history: the operator policy it was resolved under        *)
  turns,       (* what is on task-begin: the task and effective_policy      *)
  sessions,    (* the agents' sessions: the task and the header X-Fixus-Policy *)
  calls,       (* what is on tool-invoke: the task and the policy           *)
  restarts

creation == <<place, asked, role, tenantRead, effective, under>>
transit == <<turns, sessions, calls>>
policyVars == <<operator, tenantLog, creation, transit, restarts>>

Roles == {"reader", "operator"}

Init ==
  /\ operator \in {Loaded(p) : p \in OperatorPolicies}
  /\ tenantLog = <<>>
  /\ place = [t \in Tasks |-> "absent"]
  /\ asked = [t \in Tasks |-> Strict] /\ role = [t \in Tasks |-> "reader"]
  /\ tenantRead = [t \in Tasks |-> Strict]
  /\ effective = [t \in Tasks |-> None]
  /\ under = [t \in Tasks |-> Strict]
  /\ turns = {} /\ sessions = {} /\ calls = {} /\ restarts = 0

(* set_tenant_policy: one more record on the stream of the tenant, ... *)
TenantPolicyPut(p) == tenantLog' = Append(tenantLog, p)

(* ... which the handler asks for when the operator's policy covers p.     *)
SetTenantPolicy ==
  /\ Len(tenantLog) < MaxSets
  /\ \E p \in TenantPolicies : validate_subset(p, operator) /\ TenantPolicyPut(p)
  /\ UNCHANGED <<operator, creation, transit, restarts>>

(* read_latest_stream_content: the newest record, but the scan of the      *)
(* stream may run into its deadline with an older one, or with none.       *)
LatestContents == {None} \cup {tenantLog[n] : n \in DOMAIN tenantLog}

(* create_session_handler, up to get_tenant_policy: none is the default.   *)
ReadTenantPolicy(t) ==
  /\ place[t] = "absent"
  /\ \E content \in LatestContents :
       tenantRead' = [tenantRead EXCEPT ![t] = IF content = None THEN Strict ELSE content]
  /\ \E p \in TaskPolicies, r \in Roles :
       asked' = [asked EXCEPT ![t] = p] /\ role' = [role EXCEPT ![t] = r]
  /\ place' = [place EXCEPT ![t] = "read"]
  /\ UNCHANGED <<operator, tenantLog, effective, under, transit, restarts>>

(* create_task writes the policy into task_created. *)
Created(t, eff) ==
  /\ place' = [place EXCEPT ![t] = "created"]
  /\ effective' = [effective EXCEPT ![t] = eff]
  /\ under' = [under EXCEPT ![t] = operator]

(* create_session_handler, from there on: task_created, or 400. *)
CreateTask(t) ==
  /\ place[t] = "read"
  /\ LET eff == resolve_and_validate(operator, tenantRead[t], asked[t], role[t]) IN
     IF eff # None THEN Created(t, eff)
     ELSE place' = [place EXCEPT ![t] = "refused"] /\ UNCHANGED <<effective, under>>
  /\ UNCHANGED <<operator, tenantLog, asked, role, tenantRead, transit, restarts>>

-----------------------------------------------------------------------------
(* The way to the sandbox.                                                 *)

(* get_task(t).effective_policy: a projection that cannot be loaded, or    *)
(* has not seen task_created yet, has none.                                *)
PolicyOf(t) == {effective[t], None}

(* build_turn_begin_payload always has the field. *)
BeginPayload(t, p) == [task |-> t, policy |-> IF p = None THEN Null ELSE p]

(* dispatch_execute_turn_with_ctx: a first dispatch, a retry or a redo. *)
BeginTurn(t) ==
  /\ place[t] = "created"
  /\ \E p \in PolicyOf(t) : turns' = turns \cup {BeginPayload(t, p)}
  /\ UNCHANGED <<operator, tenantLog, creation, sessions, calls, restarts>>

(* parse_execute_turn_payload keeps the field as it is, also null ... *)
ParsedPolicy(m) == m.policy

(* ... and build_session_new_params turns what there is into the header.   *)
SessionParams(m, p) == [task |-> m.task, header |-> p]

(* execute_turn of the fixlet: a session of its own for each turn; a turn  *)
(* may be claimed more than once.                                          *)
OpenSession(m) ==
  /\ m \in turns
  /\ sessions' = sessions \cup {SessionParams(m, ParsedPolicy(m))}
  /\ UNCHANGED <<operator, tenantLog, creation, turns, calls, restarts>>

(* handle_mcp: a header the agent left out, or with a value that is not    *)
(* visible ASCII, is no policy.                                            *)
HeaderPolicy(s) == {s.header, None}

(* build_invoke_meta: no policy, no entry. *)
InvokeMeta(s, p) == [task |-> s.task, policy |-> p]

CallTool(s) ==
  /\ s \in sessions
  /\ \E p \in HeaderPolicy(s) : calls' = calls \cup {InvokeMeta(s, p)}
  /\ UNCHANGED <<operator, tenantLog, creation, turns, sessions, restarts>>

(* start: the operator's file is read again; creations under way are lost, *)
(* turns, sessions and calls are not.                                      *)
Restart ==
  /\ restarts < MaxRestarts
  /\ restarts' = restarts + 1
  /\ operator' \in {Loaded(p) : p \in OperatorPolicies}
  /\ place' = [t \in Tasks |-> IF place[t] = "read" THEN "absent" ELSE place[t]]
  /\ UNCHANGED <<tenantLog, asked, role, tenantRead, effective, under, transit>>

Next ==
  \/ SetTenantPolicy \/ Restart
  \/ \E t \in Tasks : ReadTenantPolicy(t) \/ CreateTask(t) \/ BeginTurn(t)
  \/ \E m \in turns : OpenSession(m)
  \/ \E s \in sessions : CallTool(s)

Spec == Init /\ [][Next]_policyVars

-----------------------------------------------------------------------------
(* Properties.                                                             *)

Allows(scopes, path) == \E i \in DOMAIN scopes : path_within(path, scopes[i])

NoMoreThan(p, q) ==
  /\ \A path \in Paths : /\ Allows(p.read, path) => Allows(q.read, path)
                         /\ Allows(p.write, path) => Allows(q.write, path)
  /\ p.net \subseteq q.net

(* resolve_effective, "only narrows": whatever happens to the policies of  *)
(* the operator and the tenant between the creation of a task and its      *)
(* calls, a call carries no more than the task asked for, a policy the     *)
(* tenant had, and the operator policy in force at the creation allowed;   *)
(* a reader reaches no host and keeps only write scopes that are labelled  *)
(* work_dir.  The label is the one the narrower scope brought along: where *)
(* the task's path is the deeper one the task chose it itself, and         *)
(* validate_subset does not compare labels, so the last clause is about    *)
(* what is kept and says nothing of where the path lies.                   *)
CallsWithin ==
  \A c \in calls : c.policy \notin {None, Null} =>
    /\ NoMoreThan(c.policy, asked[c.task])
    /\ NoMoreThan(c.policy, under[c.task])
    /\ \/ NoMoreThan(c.policy, Strict)
       \/ \E n \in DOMAIN tenantLog : NoMoreThan(c.policy, tenantLog[n])
    /\ role[c.task] = "reader" =>
         /\ c.policy.net = {}
         /\ \A i \in DOMAIN c.policy.write : c.policy.write[i].trust = "work_dir"

(* Some scope of a overlaps more than one of b. *)
Crowded(a, b) ==
  \E i \in DOMAIN a : Cardinality({j \in DOMAIN b : Overlap(a[i], b[j])}) > 1

(* The scopes three lists have in common, where no scope meets two of the  *)
(* next list, are all in the result.                                       *)
NothingLost(result, a, b, c) ==
  (~Crowded(a, b) /\ ~Crowded(intersect_set(a, b), c)) =>
    \A path \in Paths :
      Allows(a, path) /\ Allows(b, path) /\ Allows(c, path) => Allows(result, path)

(* A task that was not refused gets what it asked for as far as the        *)
(* operator and the tenant allow it, where no scope overlaps two scopes of *)
(* the next policy: of those the resolver keeps only the first.            *)
AcceptedIsGranted ==
  \A t \in Tasks : place[t] = "created" =>
    LET eff == effective[t]
        op  == under[t]
        ten == tenantRead[t]
    IN  /\ NothingLost(eff.read, op.read, ten.read, asked[t].read)
        /\ role[t] = "operator" =>
             NothingLost(eff.write, op.write, ten.write, asked[t].write)
=============================================================================
