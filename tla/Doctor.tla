------------------------------- MODULE Doctor --------------------------------
(***************************************************************************)
(* The rows `vacmcp doctor` prints (cmd/vacmcp/doctor.go).                 *)
(*                                                                         *)
(* What a check finds when it asks is a record, the environment e:         *)
(*   mcp       whether a server of its own starts and lists its tools      *)
(*   zoektURL  whether a URL is configured; zoekt: what is there           *)
(*   command   what running the CBM command gives                          *)
(*   version   the numbers it prints, NaN for a part that is not one       *)
(*   hang      the paths at which git never returns                        *)
(*   commits   for every path that is a git repository, its commits        *)
(***************************************************************************)
EXTENDS Configuration

NaN == -1

minCBM == <<0, 11, 0>>

Row(name, status, detail) == [name |-> name, status |-> status, detail |-> detail]

\* The checks that need a configuration, and its row, have one-part names.
sdkCheck    == <<"MCP SDK">>
zoektCheck  == <<"Zoekt">>
cbmCheck    == <<"CBM">>
gitCheck    == <<"Git repo">>
configCheck == <<"Config">>
unnamed     == <<"-">>

\* The numbers before the first part that is not one.
release(v) ==
  LET other == {i \in DOMAIN v : v[i] = NaN}
  IN  IF other = {} THEN v ELSE SubSeq(v, 1, Min(other) - 1)

\* Mutant: no part may be less.
atLeast_parts(got, want) ==
  \A i \in DOMAIN want : i \in DOMAIN release(got) /\ got[i] >= want[i]

\* A part that got does not have counts as zero.
atLeast(got, want) ==
  LET part(i) == IF i \in DOMAIN release(got) THEN got[i] ELSE 0
      differ  == {i \in DOMAIN want : part(i) # want[i]}
  IN  differ = {} \/ \E i \in differ : (\A j \in differ : i <= j) /\ part(i) > want[i]

\* Needs no configuration, and is answered without one.
checkSDK(e) == Row(sdkCheck, IF e.mcp THEN "OK" ELSE "FAIL", <<>>)

\* An answer proves more than an open port: without -rpc there is none.
checkZoekt(e) ==
  Row(zoektCheck, IF e.zoektURL /\ e.zoekt = "answers" THEN "OK" ELSE "FAIL", <<>>)

\* A daemon that is not resident is advice, never a failure.
checkCBM(e) ==
  LET usable == /\ e.command = "runs"
                /\ release(e.version) # <<>>
                /\ atLeast(e.version, minCBM)
  IN  Row(cbmCheck, IF usable THEN "OK" ELSE "FAIL", <<>>)

\* One probeTimeout is over all the repositories: behind one that hangs, none is
\* asked.
reached(hang, asked, i) == \A j \in 1 .. i : asked[j] \notin hang

\* Mutant: the check ends at the first repository that is not readable.
checkGit_first(cfg, e) ==
  LET names == Sorted(DOMAIN cfg.repositories)
      failures == Keep(names, {i \in DOMAIN names : cfg.repositories[names[i]] \notin DOMAIN e.commits})
  IN  IF failures # <<>> THEN Row(gitCheck, "FAIL", <<Head(failures)>>)
                         ELSE Row(gitCheck, "OK", names)

\* The row lists the failures, or without one all that it read.
checkGit(cfg, e) ==
  LET names == Sorted(DOMAIN cfg.repositories)
      paths == [i \in DOMAIN names |-> cfg.repositories[names[i]]]
      failing == {i \in DOMAIN names :
                    ~reached(e.hang, paths, i) \/ paths[i] \notin DOMAIN e.commits}
  IN  IF failing = {} THEN Row(gitCheck, "OK", names)
                      ELSE Row(gitCheck, "FAIL", Keep(names, failing))

\* Resolver.Resolve: the revision of every member is a commit of its repository.
Resolve(cfg, e, id) ==
  /\ id \in DOMAIN cfg.contexts
  /\ \A i \in DOMAIN cfg.contexts[id] :
       LET m == cfg.contexts[id][i]
       IN  /\ m.repository \in DOMAIN cfg.repositories
           /\ cfg.repositories[m.repository] \in DOMAIN e.commits \ e.hang
           /\ m.revision \in e.commits[cfg.repositories[m.repository]]

scopes(members) ==
  [i \in DOMAIN members |-> <<members[i].repository, members[i].revision>>]

\* The row of a context that should resolve.
resolved(cfg, e, id) ==
  IF Resolve(cfg, e, id) THEN Row(id, "OK", scopes(cfg.contexts[id])) ELSE Row(id, "FAIL", <<>>)

checkContexts(cfg, e) ==
  LET ids == Sorted(DOMAIN cfg.contexts) IN [i \in DOMAIN ids |-> resolved(cfg, e, ids[i])]

\* Mutant: a context that is not served has nothing wrong with it.
managedRow_served(record, cfg, e) ==
  IF record.state = "READY" THEN resolved(cfg, e, record.id)
                            ELSE Row(record.id, "OK", scopes(record.members))

managedRow(record, cfg, e) ==
  CASE record.state = "READY"  -> resolved(cfg, e, record.id)
    [] record.state = "FAILED" -> Row(record.id, "FAIL", scopes(record.members))
    [] OTHER                   -> Row(record.id, "SKIP", scopes(record.members))

\* records: what a second reading gives, after the one that cfg comes from.
checkManagedContexts(records, cfg, e) ==
  IF records = Unreadable THEN <<Row(unnamed, "FAIL", <<>>)>>
  ELSE [i \in DOMAIN records |-> managedRow(records[i], cfg, e)]

\* states: of every managed repository, the state its last command left it in
checkRepositories(states) ==
  LET names == Sorted(DOMAIN states)
  IN  [i \in DOMAIN names |->
         Row(names[i], IF states[names[i]] = "READY" THEN "OK" ELSE "FAIL", <<>>)]

notChecked(name) == Row(name, "SKIP", <<>>)

\* What has no configuration to be checked against is not a failure of its own.
checks(loaded, e) ==
  IF loaded.ok
  THEN <<checkSDK(e), Row(configCheck, "OK", <<>>),
         checkZoekt(e), checkCBM(e), checkGit(loaded.config, e)>>
  ELSE <<checkSDK(e), Row(configCheck, "FAIL", <<>>),
         notChecked(zoektCheck), notChecked(cbmCheck), notChecked(gitCheck)>>

\* doctor: every check runs, and it exits without an error only if all are OK.
report(checked, repositories, contexts) ==
  [checks |-> checked, repositories |-> repositories, contexts |-> contexts,
   ok |-> \A x \in ToSet(checked) \cup ToSet(repositories) \cup ToSet(contexts) : x.status = "OK"]
=============================================================================
