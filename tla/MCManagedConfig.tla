-------------------------- MODULE MCManagedConfig ----------------------------
EXTENDS ManagedConfig

app    == <<"app">>
appweb == <<"app", "web">>
lib    == <<"lib">>
odd    == <<"o..d">>
main   == <<"main">>
rel    == <<"rel">>
r1     == <<"r1">>
r2     == <<"r2">>
v1     == <<"v1">>
webv1  == <<"web", "v1">>
appv1  == <<"app", "v1">>

MCRepos    == {app, appweb, lib, odd}
MCPushed   == {app}
MCBranches == {main, rel}

MCAlphabet == <<<<>>, app, appv1, appweb, lib, odd, v1, webv1>>
MCShort    == (r1 :> "r1") @@ (r2 :> "r2")

Pin(r, ref)   == [repository |-> r, ref |-> ref]
New(id, pins) == [id |-> id, pins |-> pins]

\* app and app-web give one graph two owners, app in v1 and app-v1 one ref; one of
\* three members may be left out of a record and two remain; the last two names no git ref can have, and two revisions of one repository.
MCPinnings ==
  {New(v1, <<Pin(app, main), Pin(appweb, main), Pin(lib, main)>>),
   New(webv1, <<Pin(app, main)>>), New(appv1, <<Pin(app, r1)>>),
   New(v1, <<Pin(app, main), Pin(odd, rel)>>), New(v1, <<Pin(app, main), Pin(app, r1)>>)}

A(b, v, g) == Member(app, b, v, g)
W(b, v, g) == Member(appweb, b, v, g)
g1 == <<"g1">>
g2 == <<"g2">>

File(rs, cs) == [repositories |-> rs, strict |-> TRUE, contexts |-> cs]
Both2 == (app :> app) @@ (appweb :> appweb)

MCFiles ==
  LET a == A(main, r1, g1)
      w == W(main, r1, g2)
  IN  {File(Both2, v1 :> Inline(a)),
       [File(Both2, v1 :> Inline(a)) EXCEPT !.strict = FALSE],
       File(Both2, v1 :> Listed(<<a, w>>)),
       File(Both2, v1 :> Both(a, <<a>>)),
       File(Both2, v1 :> Both(a, <<>>)),
       File(Both2, v1 :> Listed(<<>>)),
       File(Both2, v1 :> Listed(<<a, A(rel, r2, g2)>>)),
       File(Both2, v1 :> Listed(<<w, Member(odd, main, r1, g1)>>)),
       File(Both2, <<>>),
       File(Both2, (v1 :> Inline(a)) @@ (<<>> :> Inline(a))),
       File(Both2, v1 :> Inline(A(main, <<>>, g1))),
       File((app :> <<>>), v1 :> Inline(a)),
       File((app :> <<"nowhere">>) @@ (appweb :> appweb), v1 :> Inline(w)),
       \* three contexts with one graph, the last of which disagrees
       File(Both2, (v1 :> Inline(a)) @@ (appv1 :> Inline(A(rel, r1, g1))) @@ (webv1 :> Inline(A(main, r2, g1)))),
       File(Both2, (v1 :> Inline(a)) @@ (webv1 :> Inline(W(main, r1, g1)))),
       File(Both2, (v1 :> Inline(a)) @@ (webv1 :> Listed(<<A(rel, r1, g1), w>>))),
       File(Both2, v1 :> Inline(A(main, r2, g1)))}

Well == [mcp |-> TRUE, zoektURL |-> TRUE, zoekt |-> "answers", command |-> "runs",
         version |-> <<0, 11, 0>>, hang |-> {}]

MCEnvironments ==
  {Well, [Well EXCEPT !.mcp = FALSE], [Well EXCEPT !.zoektURL = FALSE],
   [Well EXCEPT !.zoekt = "down"], [Well EXCEPT !.zoekt = "no rpc"],
   [Well EXCEPT !.command = "missing"], [Well EXCEPT !.hang = {app}],
   [Well EXCEPT !.hang = {appweb}]}
  \cup {[Well EXCEPT !.version = v] :
          v \in {<<>>, <<NaN>>, <<0, 10, 9>>, <<0, 9>>, <<0, 11>>, <<0, 11, NaN>>, <<0, 12>>, <<1>>,
                 <<1, 0, 0>>, <<0, 11, 1>>}}

MCUsual == {Well, [Well EXCEPT !.hang = {app}]}
=============================================================================
