------------------------------ MODULE MCEngine ------------------------------
(***************************************************************************)
(* Two commands, at once or one after the other, on a machine without a    *)
(* GPU: a model whose weights are a shard of two chunks, beside a          *)
(* configuration file, and one with a slash in its name, listed under a    *)
(* name that contains the other's; and a model that needs a GPU.           *)
(***************************************************************************)
EXTENDS Engine

CONSTANTS tiny, org, huge, orgListed, weights, config, bin, big

MCFilesOf ==
    [m \in Models |-> CASE m = tiny -> <<weights, config>>
                        [] m = org -> <<bin>>
                        [] m = huge -> <<big>>]

MCShards == [m \in Models |-> IF m = tiny THEN 1 ELSE 0]

MCSize == [f \in Files |-> IF f = weights THEN 2 ELSE 1]

Typed(op, m, force) == [op |-> op, model |-> m, force |-> force]

MCRequests ==
    {Typed("pull", tiny, FALSE), Typed("pull", tiny, TRUE),
     Typed("remove", tiny, FALSE),
     Typed("deploy", tiny, FALSE), Typed("deploy", tiny, TRUE),
     Typed("deploy", org, FALSE), Typed("deploy", huge, FALSE),
     Typed("stop", tiny, FALSE), Typed("stop", org, FALSE),
     Typed("stop all", tiny, FALSE)}

Empty == [f \in Files |-> <<>>]

MCListed == [m \in Models |-> IF m = org THEN orgListed ELSE m]

MCContains == {<<tiny, tiny>>, <<orgListed, tiny>>, <<huge, huge>>}

Old(state, port) == [id |-> 1, state |-> state, port |-> port]

Nothing == [n \in Names |-> NoBox]

Session(files, names, boxes, recs) ==
    [disk |-> files, index |-> names, box |-> boxes, records |-> recs]

\* A download broken off; a model that runs; one that is stopped and another
\* that runs.
MCSessions ==
    {Session([Empty EXCEPT ![weights] = <<1>>, ![config] = <<1>>], {tiny},
             Nothing, NoRecords),
     Session([f \in Files |-> Original(f)], Models,
             [Nothing EXCEPT ![tiny] = Old("running", 1)],
             [NoRecords EXCEPT ![tiny] = 1]),
     Session([f \in Files |-> Original(f)], Models,
             [Nothing EXCEPT ![tiny] = Old("exited", 1),
                             ![orgListed] = Old("running", 2)],
             [NoRecords EXCEPT ![org] = 1])}

Entry(name, thousandths, unit, target, ram, vram) ==
    [name |-> name, thousandths |-> thousandths, unit |-> unit,
     target |-> target, ram |-> ram, vram |-> vram]

File(entries) == [readable |-> TRUE, entries |-> entries]

NoFile == [readable |-> FALSE, entries |-> <<>>]

MCMachine == [gpu |-> FALSE, vram |-> 0, ram |-> 4]

\* The user's file corrects the memory the bundled one says a model takes, and
\* the project's own file is not one, for a target nobody knows.
MCLayers ==
    [bundled |-> <<NoFile, File(<<Entry(tiny, 2, "K", "both", 9, {1}),
                                  Entry(org, 3, "K", "cpu", 3, {}),
                                  Entry(huge, 9, "K", "gpu", 0, {8})>>)>>,
     default |-> File(<<>>),
     system |-> NoFile,
     user |-> File(<<Entry(tiny, 2, "K", "both", 2, {1})>>),
     local |-> File(<<Entry(org, 3, "K", "tpu", 9, {})>>)]

-----------------------------------------------------------------------------
(* The functions of Registry against what they are for.                    *)

Machines ==
    {[gpu |-> g, vram |-> v, ram |-> r] : g \in BOOLEAN, v \in 0..2, r \in 0..2}

Kinds == {Entry(n, 1, "K", t, r, v) : n \in {tiny, org}, t \in Targets \cup {"tpu"},
                                     r \in {0, 2}, v \in {{}, {1, 2}}}

SomeFiles == {NoFile} \cup {File(<<e>>) : e \in Kinds}

\* The last file that loads and names a model is the one that counts.
LayersAgree ==
    \A a, b \in SomeFiles : \A c \in {NoFile, File(<<Entry(org, 3, "K", "cpu", 3, {})>>)} :
        LET l == [bundled |-> <<c, a>>, default |-> File(<<>>), system |-> NoFile,
                  user |-> b, local |-> NoFile]
            known == LoadAllModels(l)
            base == IF Loads(c) THEN c ELSE a
            Has(file, n) == Loads(file) /\ n \in DOMAIN Entries(file)
        IN  \A n \in Models :
                /\ n \in DOMAIN known <=> Has(base, n) \/ Has(b, n)
                /\ Has(b, n) => known[n] = Entries(b)[n]
                /\ Has(base, n) /\ ~Has(b, n) => known[n] = Entries(base)[n]

\* What is listed for a machine could be deployed on it.
ListsAgree ==
    \A file \in {x \in SomeFiles : Loads(x)}, machine \in Machines :
        /\ FilterByHardware(Entries(file), machine)
              \subseteq GetSuitableModels(Entries(file), machine)
        /\ ~machine.gpu => FilterByHardware(Entries(file), machine) =
                              GetSuitableModels(Entries(file), machine)

Caches == [there : BOOLEAN, readable : BOOLEAN, age : {0, 24},
           models : {Entries(File(<<Entry(tiny, 1, "K", "cpu", 0, {})>>))}]

\* Models are had from the network or the cache, and from the cache alone only
\* if it is young or there is no network.
CachesAgree ==
    \A cache \in Caches, api \in SomeFiles, writable \in BOOLEAN :
        LET got == FetchAndCache(cache, api, writable)
        IN  /\ got.ok <=> Loads(api) \/ (cache.there /\ cache.readable)
            /\ got.ok => got.models \in {cache.models, Entries(api)}
            /\ Loads(api) /\ writable => LoadCache(got.cache) /\ IsCacheValid(got.cache)
            /\ FetchOnly(ClearCache(cache), api, writable).ok <=> Loads(api)

\* A form is always suggested, and it fits.
FormsAgree ==
    \A params \in {0, 1, 7, 100, 1000}, vram \in {0, 1, 8, 200, 1000, 2300} :
        LET fit == AnalyzeModelFit(params, vram)
        IN  /\ fit.recommended \in fit.fitting
            /\ fit.required <= vram

ASSUME RegistryAgrees == LayersAgree /\ ListsAgree /\ CachesAgree /\ FormsAgree
=============================================================================
