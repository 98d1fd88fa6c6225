-------------------------- MODULE ProcessOwnership --------------------------
(***************************************************************************)
(* The process probe of ownership.py: whether a Codex CLI of the target    *)
(* runs.  One list of processes is kept in the Guardian process for a few  *)
(* seconds, and is served at any age when a new query times out.           *)
(***************************************************************************)
EXTENDS Integers

VARIABLES
    cliUp,      \* a Codex CLI process of the target runs
    processes,  \* _WINDOWS_PROCESS_CACHE, as far as it tells about that CLI
    cliUnseen   \* ghost: that CLI started after the last query was answered

probeVars == <<cliUp, processes, cliUnseen>>

\* "young": within _WINDOWS_PROCESS_CACHE_SECONDS.
ProcessLists == [taken : BOOLEAN, young : BOOLEAN, cli : BOOLEAN]
NoList == [taken |-> FALSE, young |-> FALSE, cli |-> FALSE]
ListOf(running) == [taken |-> TRUE, young |-> TRUE, cli |-> running]

ProbeInit ==
    /\ cliUp \in BOOLEAN
    /\ processes = NoList
    /\ cliUnseen = FALSE

\* The answer of the kept list, while it is young.
AnswerFromCache(running) ==
    /\ processes.young
    /\ running = processes.cli
    /\ UNCHANGED probeVars

\* A new query is answered.
AnswerFromQuery(running) ==
    /\ ~processes.young
    /\ running = cliUp
    /\ processes' = ListOf(cliUp)
    /\ cliUnseen' = FALSE
    /\ UNCHANGED cliUp

Answer(running) == AnswerFromCache(running) \/ AnswerFromQuery(running)

\* Variant: a query that times out finds no CLI.
AnswerNothingAfterTimeout(running) ==
    /\ ~processes.young
    /\ running = FALSE
    /\ UNCHANGED probeVars

\* A new query times out: the kept list answers, whatever its age.
AnswerAfterTimeout(running) ==
    /\ ~processes.young
    /\ processes.taken
    /\ running = processes.cli
    /\ UNCHANGED probeVars

\* A new query fails, or times out and no list was ever taken: it raises.
ProbeRaises == ~processes.young

ListAges ==
    /\ processes.young
    /\ processes' = [processes EXCEPT !.young = FALSE]
    /\ UNCHANGED <<cliUp, cliUnseen>>

\* The Guardian process ends, and its list with it.
ForgetList ==
    /\ processes' = NoList
    /\ UNCHANGED <<cliUp, cliUnseen>>

CliUp ==
    /\ ~cliUp
    /\ cliUp' = TRUE
    /\ cliUnseen' = TRUE
    /\ UNCHANGED processes

CliDown ==
    /\ cliUp
    /\ cliUp' = FALSE
    /\ cliUnseen' = FALSE
    /\ UNCHANGED processes

ProbeTypeOK ==
    /\ cliUp \in BOOLEAN
    /\ processes \in ProcessLists
    /\ cliUnseen \in BOOLEAN
=============================================================================
