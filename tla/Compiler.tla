------------------------------ MODULE Compiler ------------------------------
(***************************************************************************)
(* From the canvas to the JSON of a pipeline (lib/compiler/toJson.ts), over *)
(* the chain walks it shares with the editor (graph.ts). An entry of the   *)
(* JSON is its `what` with what it holds; the fields of a format or of a   *)
(* rule are left out, and issues are named for what they refuse.           *)
(***************************************************************************)
EXTENDS CanvasGraph, SequencesExt

CONSTANTS
  SubPipelines, \* the dual transformations that forward the right-hand chain: join
  RuleCodes     \* the codes of a rule, one per target and at least one (expandTargets)

ASSUME SubPipelinesAssumption == SubPipelines \subseteq Dual
ASSUME RuleCodesAssumption == RuleCodes \in [Whats -> Seq(Codes) \ {<<>>}]

\* Op of a value that is worked out first, and once: TLC works out a LET at every
\* use of it while it counts coverage.
Given(value, Op(_)) == CHOOSE result \in {Op(v) : v \in {value}} : TRUE

\* Those of ids that are in S, in their order.
Among(ids, S) ==
  LET kept[i \in 0 .. Len(ids)] ==
        IF i = 0 THEN <<>> ELSE IF ids[i] \in S THEN Append(kept[i - 1], ids[i]) ELSE kept[i - 1]
  IN kept[Len(ids)]

NoPipeline == <<>>
Numbered(S) == Among([i \in 1 .. Max(S \union {0}) |-> i], S)
What(g, n) == g.nodes[n].what
WhatsOf(g, ids) == [i \in DOMAIN ids |-> What(g, ids[i])]
OfKind(g, ids, kind) == Among(ids, {n \in DOMAIN g.nodes : Kind(g, n) = kind})
Alive(g, ids) == Among(ids, {n \in DOMAIN g.nodes : Kind(g, n) # "note" /\ ~g.nodes[n].muted})
-----------------------------------------------------------------------------
(* graph.ts.                                                               *)

\* chainToSink: back along the main inputs, to a box that nothing feeds.
StepBack(g, walk) ==
  LET parents == ParentsOn(g, Head(walk.nodes), "in")
  IN IF parents = {} THEN walk
     ELSE IF Cardinality(parents) > 1 THEN [nodes |-> <<>>, problem |-> "multiple-parents"]
     ELSE IF parents \subseteq ToSet(walk.nodes) THEN [nodes |-> <<>>, problem |-> "cycle"]
     ELSE [walk EXCEPT !.nodes = <<Max(parents)>> \o @]
StepOn(g, walk) == IF walk.problem = "none" THEN StepBack(g, walk) ELSE walk
ChainToSink(g, end) ==
  LET walk[i \in 0 .. Cardinality(DOMAIN g.nodes)] ==
        IF i = 0 THEN [nodes |-> <<end>>, problem |-> "none"]
        ELSE Given(walk[i - 1], LAMBDA w : StepOn(g, w))
  IN walk[Cardinality(DOMAIN g.nodes)]

\* What makes a walk unfit to be compiled, whichever walk it is.
FaultOf(g, walk) ==
  LET chain == Alive(g, walk.nodes)
  IN IF walk.problem # "none" THEN walk.problem
     ELSE IF chain = <<>> \/ Kind(g, chain[1]) # "source" THEN "no-source"
     ELSE IF OfKind(g, Tail(chain), "source") # <<>> THEN "two-sources"
     ELSE "none"
ChainFault(g, end) == Given(ChainToSink(g, end), LAMBDA walk : FaultOf(g, walk))
ChainTo(g, end) == Alive(g, ChainToSink(g, end).nodes)
Chains(g, ends) == <<>> \o [i \in DOMAIN ends |-> ChainTo(g, ends[i])]
Middle(chain) == SubSeq(chain, 2, Len(chain) - 1)
Middles(chains) == {Middle(chains[i]) : i \in DOMAIN chains}
SharedPrefix(lists) ==
  Given(lists, LAMBDA all : IF all = {} THEN <<>> ELSE LongestCommonPrefix(all))
-----------------------------------------------------------------------------
(* toJson.ts.                                                              *)

\* compileTransform, given what its second input compiles to.
NoSide == [side |-> <<>>, used |-> {}, errors |-> {}]
Refused(problem) == [NoSide EXCEPT !.errors = {problem}]
CompiledWith(g, n, second) ==
  [step |-> [what |-> What(g, n), side |-> second.side],
   used |-> {n} \union second.used, errors |-> second.errors]

\* compileSideInput: the second source of a join or a union, and the steps of its chain.
CompileSide(g, n, fault, chain, steps) ==
  LET rest == Tail(chain)
      input(whats) == <<[input |-> What(g, chain[1]), steps |-> whats]>>
      compiled(made) ==
        [side |-> input([i \in DOMAIN made |-> made[i].step]),
         used |-> ToSet(chain) \union UNION {made[i].used : i \in DOMAIN made},
         errors |-> UNION {made[i].errors : i \in DOMAIN made}]
  IN IF fault \in {"multiple-parents", "cycle", "no-source"} THEN Refused(fault)
     ELSE IF fault = "two-sources" \/ OfKind(g, rest, "validation") # <<>>
          THEN [Refused("side-chain") EXCEPT !.used = ToSet(chain)]
     ELSE IF rest # <<>> /\ What(g, n) \notin SubPipelines
          THEN [side |-> input(<<>>), used |-> ToSet(chain), errors |-> {"union-reshapes"}]
     ELSE Given(steps, compiled)
SecondWalk(g, n) == ChainToSink(g, CHOOSE m \in ParentsOn(g, n, "inRight") : TRUE)
CompileSideInput(g, n, steps) ==
  IF ParentsOn(g, n, "inRight") = {} THEN Refused("no-second-source")
  ELSE Given(SecondWalk(g, n),
             LAMBDA walk : CompileSide(g, n, FaultOf(g, walk), Alive(g, walk.nodes), steps))

\* compileTransform: `stack` holds the boxes whose second inputs are being compiled.
CompileSecond(g, n, stack, steps) ==
  IF What(g, n) \notin Dual THEN NoSide
  ELSE IF n \in stack THEN Refused("feeds-itself")
  ELSE CompileSideInput(g, n, steps)
SecondRest(g, n) == Given(Alive(g, SecondWalk(g, n).nodes), LAMBDA chain : SubSeq(chain, 2, Len(chain)))
Seconds(g) ==
  LET second[at \in (DOMAIN g.nodes) \X (SUBSET DOMAIN g.nodes)] ==
        CompileSecond(g, at[1], at[2],
          Given(SecondRest(g, at[1]), LAMBDA rest :
            <<>> \o [i \in DOMAIN rest |->
                       CompiledWith(g, rest[i], second[<<rest[i], at[2] \union {at[1]}>>])]))
  IN second
CompileTransform(g, n) == Given(Seconds(g)[<<n, {}>>], LAMBDA second : CompiledWith(g, n, second))

Transforms(g, ids) ==
  Given(OfKind(g, ids, "transform"),
        LAMBDA nodes : <<>> \o [i \in DOMAIN nodes |-> CompileTransform(g, nodes[i])])
StepsOf(compiled) == [i \in DOMAIN compiled |-> compiled[i].step]

\* partitionSinks: the destinations of the job, and the first box of each role.
MainSinks(g) ==
  Numbered({n \in DOMAIN g.nodes : Kind(g, n) = "sink" /\ ~g.nodes[n].muted
                                     /\ ~IsValidationSink(g.nodes[n])})
QualitySinks(g) == {n \in DOMAIN g.nodes : IsValidationSink(g.nodes[n]) /\ ~g.nodes[n].muted}
HoldersOf(g, role) == {n \in QualitySinks(g) : g.nodes[n].role = role}
SideSinks(g) ==
  [role \in {g.nodes[n].role : n \in QualitySinks(g)} |-> Min(HoldersOf(g, role))]

\* The scope of the quarantine: the rules linked to its scope handle, and the
\* codes it was imported with that match no rule.
ScopeOf(g, n, rules) ==
  g.nodes[n].codes
    \union UNION {ToSet(RuleCodes[What(g, r)]) : r \in ParentsOn(g, n, "inScope") \intersect ToSet(rules)}

BuildValidations(g, rules) ==
  IF rules = <<>> THEN [rules |-> <<>>, written |-> <<>>]
  ELSE [rules |-> WhatsOf(g, rules),
        written |-> [role \in DOMAIN SideSinks(g) |->
                       [what |-> What(g, SideSinks(g)[role]),
                        scope |-> IF role = "invalid" THEN ScopeOf(g, SideSinks(g)[role], rules)
                                  ELSE {}]]]

\* The rule that ends the run of rules: the chain all destinations share stops there.
LastRule(g, prefix) ==
  Max({0} \union {i \in DOMAIN prefix : Kind(g, prefix[i]) = "validation"})
FirstRule(g, prefix) ==
  Min({Len(prefix) + 1} \union {i \in DOMAIN prefix : Kind(g, prefix[i]) = "validation"})
MainPrefix(g, prefix) ==
  IF LastRule(g, prefix) > 0 THEN SubSeq(prefix, 1, LastRule(g, prefix)) ELSE prefix

\* Mutant of Wedged: any box may stand between two rules.
WedgedNever(g, prefix) == {}

Wedged(g, prefix) ==
  {prefix[i] : i \in {j \in DOMAIN prefix : FirstRule(g, prefix) < j /\ j < LastRule(g, prefix)
                                             /\ Kind(g, prefix[j]) # "validation"}}
Stray(g, middles, prefix) ==
  {n \in UNION {ToSet(m) : m \in middles} : Kind(g, n) = "validation" /\ n \notin ToSet(prefix)}

\* compileGraph: what stands in the way of a pipeline, the pipeline, and what is in neither.
ErrorsOf(g, chains, prefix, compiled) ==
  ({ChainFault(g, n) : n \in ToSet(MainSinks(g))} \ {"none"})
  \union (UNION {c.errors : c \in compiled})
  \union (IF \E r \in SinkRoles \ {"none"} : Cardinality(HoldersOf(g, r)) > 1
          THEN {"role-taken"} ELSE {})
  \union (IF Cardinality({chains[i][1] : i \in DOMAIN chains}) > 1 THEN {"two-inputs"} ELSE {})
  \union (IF Stray(g, Middles(chains), prefix) # {} THEN {"stray-rule"} ELSE {})
  \union (IF Wedged(g, prefix) # {} THEN {"between-rules"} ELSE {})
  \union (IF OfKind(g, prefix, "validation") = <<>> /\ QualitySinks(g) # {}
          THEN {"no-rule"} ELSE {})

PipelineOf(g, good, chains, rules, steps, tails) ==
  [input |-> What(g, chains[1][1]), steps |-> StepsOf(steps),
   rules |-> BuildValidations(g, rules).rules, written |-> BuildValidations(g, rules).written,
   outputs |-> [i \in DOMAIN chains |-> [what |-> What(g, good[i]), steps |-> StepsOf(tails[i])]]]

UnusedOf(g, chains, compiled) ==
  LET used == (UNION {ToSet(chains[i]) : i \in DOMAIN chains}) \union UNION {c.used : c \in compiled}
  IN {n \in DOMAIN g.nodes \ (used \union QualitySinks(g)) :
        Kind(g, n) # "note" /\ ~g.nodes[n].muted}

Assemble(g, good, chains, prefix, steps, tails) ==
  LET compiled == ToSet(steps) \union UNION {ToSet(tails[i]) : i \in DOMAIN tails}
      errors == ErrorsOf(g, chains, prefix, compiled)
  IN [pipeline |-> IF errors # {} THEN NoPipeline
                   ELSE PipelineOf(g, good, chains, OfKind(g, prefix, "validation"), steps, tails),
      errors |-> errors, unused |-> UnusedOf(g, chains, compiled)]

\* What each chain has to itself, after the shared one.
Tails(g, chains, main) ==
  <<>> \o [i \in DOMAIN chains |->
             Transforms(g, SubSeq(chains[i], Len(main) + 2, Len(chains[i]) - 1))]
Branches(g, good, chains, prefix) ==
  LET main == MainPrefix(g, prefix)
  IN Given(Transforms(g, main), LAMBDA steps :
       Given(Tails(g, chains, main), LAMBDA tails :
         Assemble(g, good, chains, prefix, steps, tails)))

Compiled(g, good) ==
  IF good = <<>> THEN [pipeline |-> NoPipeline, errors |-> {"no-destination"}, unused |-> {}]
  ELSE Given(Chains(g, good), LAMBDA chains :
         Given(SharedPrefix(Middles(chains)), LAMBDA prefix : Branches(g, good, chains, prefix)))
Compile(g) ==
  Given(Among(MainSinks(g), {s \in ToSet(MainSinks(g)) : ChainFault(g, s) = "none"}),
        LAMBDA good : Compiled(g, good))
=============================================================================
