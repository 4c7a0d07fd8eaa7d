------------------------------ MODULE Registry ------------------------------
(***************************************************************************)
(* What the command line knows about models, as functions of what it reads:*)
(* core/model/loader.go (the registry files and which of them wins),       *)
(* core/model/remote_registry.go (the registry of the network, its cache,  *)
(* and the models that suit a machine), the same question as               *)
(* core/model/manager.go answers it for a deployment, and                  *)
(* core/model/quantization.go (the memory a model takes in each form, and  *)
(* the form suggested).                                                    *)
(*                                                                         *)
(* A registry file is a record: whether it can be read, and its entries in *)
(* order.  A machine is [gpu, vram, ram].  Sizes are natural numbers: the  *)
(* products of the code stay far below 2^63 for models that exist.         *)
(***************************************************************************)
EXTENDS Naturals, Sequences

Targets == {"gpu", "cpu", "both"}

Units == [none |-> 1, K |-> 1000, M |-> 1000000, B |-> 1000000000]

\* parseParameterCount, of a number of thousandths and a unit.
ParameterCount(thousandths, unit) == (thousandths * Units[unit]) \div 1000

Metadata(e) == [params |-> ParameterCount(e.thousandths, e.unit),
                target |-> e.target, ram |-> e.ram, vram |-> e.vram]

\* convertRegistryToModels: the last entry of a name is the one that counts.
Entries(file) ==
    LET At(name) == {i \in 1..Len(file.entries) : file.entries[i].name = name}
        Final(name) == CHOOSE i \in At(name) : \A k \in At(name) : k <= i
    IN  [name \in {file.entries[i].name : i \in 1..Len(file.entries)} |->
            Metadata(file.entries[Final(name)])]

\* A file with one target nobody knows is no file at all.
Loads(file) ==
    /\ file.readable
    /\ \A i \in 1..Len(file.entries) : file.entries[i].target \in Targets

MergeRegistries(local, remote) ==
    [name \in DOMAIN local \cup DOMAIN remote |->
        IF name \in DOMAIN remote THEN remote[name] ELSE local[name]]

Over(models, file) ==
    IF Loads(file) THEN MergeRegistries(models, Entries(file)) ELSE models

\* The first of the bundled files that loads, else what is compiled in.
Bundled(paths, default) ==
    LET good == {i \in 1..Len(paths) : Loads(paths[i])}
    IN  IF good = {} THEN Entries(default)
        ELSE Entries(paths[CHOOSE i \in good : \A k \in good : i <= k])

LoadAllModels(l) ==
    Over(Over(Over(Bundled(l.bundled, l.default), l.system), l.user), l.local)

-----------------------------------------------------------------------------
(* The remote registry.  Its cached file is [there, readable, age, models],*)
(* there or not, the age in hours.  api is what the network answers: a     *)
(* file, which is not readable if there is no good answer.                 *)

CacheTTL == 24

LoadCache(cache) == cache.there /\ cache.readable

IsCacheValid(cache) == cache.there /\ cache.age < CacheTTL

\* Nothing is said of a cache that cannot be written.
SaveCache(cache, models, writable) ==
    IF writable THEN [there |-> TRUE, readable |-> TRUE, age |-> 0, models |-> models]
    ELSE cache

ClearCache(cache) == [cache EXCEPT !.there = FALSE]

Answer(models, cache) == [ok |-> TRUE, models |-> models, cache |-> cache]

Failure(cache) == [ok |-> FALSE, models |-> <<>>, cache |-> cache]

\* "models refresh" does not fall back to the cache.
FetchOnly(cache, api, writable) ==
    IF Loads(api) THEN Answer(Entries(api), SaveCache(cache, Entries(api), writable))
    ELSE Failure(cache)

\* A cache that is young or cannot be replaced is as good as the network.
FetchAndCache(cache, api, writable) ==
    IF LoadCache(cache) /\ (IsCacheValid(cache) \/ ~Loads(api))
    THEN Answer(cache.models, cache)
    ELSE FetchOnly(cache, api, writable)

-----------------------------------------------------------------------------
(* Which models suit a machine: what "models list" shows, and what "deploy" *)
(* accepts.                                                                 *)

\* The least of the memory requirements an entry states, none being nothing.
MinVRAM(vram) ==
    IF vram = {} THEN 0 ELSE CHOOSE v \in vram : \A w \in vram : v <= w

FilterByHardware(models, machine) ==
    {name \in DOMAIN models :
        IF machine.gpu
        THEN /\ models[name].target \in {"gpu", "both"}
             /\ MinVRAM(models[name].vram) <= machine.vram
        ELSE /\ models[name].target # "gpu"
             /\ models[name].ram <= machine.ram}

GetSuitableModels(models, machine) ==
    {name \in DOMAIN models :
        \/ machine.gpu /\ models[name].target \in {"gpu", "both"}
        \/ /\ ~machine.gpu
           /\ models[name].target \in {"cpu", "both"}
           /\ models[name].ram <= machine.ram}

\* "models list": all that is known, or what suits the machine.
ListModels(l, cache, api, writable, machine, all) ==
    LET remote == FetchAndCache(cache, api, writable)
        known == IF remote.ok THEN MergeRegistries(LoadAllModels(l), remote.models)
                              ELSE LoadAllModels(l)
    IN  IF all THEN DOMAIN known ELSE FilterByHardware(known, machine)

-----------------------------------------------------------------------------
(* Quantization.                                                           *)

Forms == {"none", "awq", "gptq", "int8"}

Bits == [none |-> 16, awq |-> 4, gptq |-> 4, int8 |-> 8]

\* Bits become bytes by an integer division, and 4 bits become no byte.
CalculateVRAM(params, bits) ==
    LET size == params * (bits \div 8)
    IN  size + (size * 15) \div 100

\* GetQuantizationProfiles, and vramForQuantization.
VRAMRequired(params, form) == CalculateVRAM(params, Bits[form])

Fitting(params, vram) == {q \in Forms : VRAMRequired(params, q) <= vram}

Priority == <<"awq", "none", "gptq", "int8">>

\* The first form in the order of priority that fits, "" if there is none.
SuggestQuantization(params, vram) ==
    IF \E i \in 1..4 : Priority[i] \in Fitting(params, vram)
    THEN Priority[CHOOSE i \in 1..4 :
                    /\ Priority[i] \in Fitting(params, vram)
                    /\ \A k \in 1..(i - 1) :
                          Priority[k] \notin Fitting(params, vram)]
    ELSE ""

AnalyzeModelFit(params, vram) ==
    [fitting |-> Fitting(params, vram),
     recommended |-> SuggestQuantization(params, vram),
     required |-> VRAMRequired(params, SuggestQuantization(params, vram))]
=============================================================================
