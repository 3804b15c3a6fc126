---------------------------- MODULE MCWorkspace ----------------------------
(* Workspace for TLC: two commands at a time and the server, two routes, two *)
(* efforts, two profiles, two rule files, a sensitive document and another.  *)
EXTENDS Workspace, TLC

CONSTANTS u1, u2, s, coding, review, high, max, f1, f2, notes, secret, i1, i2, a1, a2

MCRuleFiles == <<f1, f2>>
MCDefault == [r \in Route |-> IF r = coding THEN high ELSE max]

MCScenarios ==
  { {"models_route_set", "agents_start"},
    {"agents_start", "agents_stop"},
    {"profile_set", "memory_add", "policies_check"},
    {"policies_check", "edit_rules"},
    {"policies_check", "mcp_serve"},
    {"brain_ingest", "save_document"},
    {"backup_restore", "rules_copy", "brain_ingest"},
    {"backup_restore", "rules_copy", "policies_check"},
    {"backup_restore", "profile_copy", "profile_set"},
    {"lines", "agents_status", "noTool", "memory_add", "brain_search", "brain_ingest", "mcp_serve"} }

Symmetry == Permutations({u1, u2}) \cup Permutations(DocId)

\* What a process holds when it is at rest is not looked at again.
Held(function, alive) == [p \in Proc |-> IF p \in alive THEN function[p] ELSE "dead"]
In(pc, dead) == {p \in Proc : pc[p] \notin dead}
Asked == {p \in Proc : service[p] \in {"profile", "restoring"}} \cup IF serverPc = "called" THEN {s} ELSE {}

View ==
  LET inRoute == In(routePc, {"idle"})
      inAgent == In(agentPc, {"idle"})
      inProfile == In(profilePc, {"idle", "known", "error"})
      inPolicy == In(policyPc, {"idle"})
      inBrain == In(brainPc, {"idle", "failed"})
  IN << routes, routePc, Held(goal, inRoute), Held(routeCopy, In(routePc, {"idle", "ensure"})),
        Held(resolved, In(agentPc, {"idle", "open", "write"})), chosen, routesMixed,
        registry, agentPc, Held(change, inAgent), Held(agentCopy, inAgent), started,
        recorded, agentsMixed,
        profile, Held(profilePc, inProfile \cup Asked), Held(wish, inProfile), activated,
        profileMixed, profileGutted,
        rules, policyPc, Held(at, inPolicy), Held(seen, In(policyPc, {"idle", "restore", "refill"})),
        edits, halfRead, gutted, overwritten,
        file, documents, chunks, index, fts, Held(brainPc, inBrain), Held(doc, inBrain),
        Held(version, inBrain), Held(found, In(brainPc, {"idle", "failed", "check", "select"})),
        used, newest, crossed,
        serverPc, IF serverPc \in {"simple", "tool", "called"} THEN request ELSE "dead", answers, owed,
        service, scenario, commands >>
=============================================================================
