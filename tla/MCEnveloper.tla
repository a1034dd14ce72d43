------------------------------ MODULE MCEnveloper ------------------------------
(***************************************************************************)
(* Small instances of Enveloper for TLC.                                   *)
(***************************************************************************)
EXTENDS Enveloper, TLC

Flags == "id" :> "x" @@ "from" :> "ann"

Given(mt, flags, fields) == [type |-> mt, flags |-> flags, fields |-> fields]

\* A message, to one and to "", one too long to read back, a retirement, a legal and an illegal
\* promotion, and one with a reserved key.
Target == "target_agent" :> "bob"
Promotion(from) == Target @@ "from_status" :> from @@ "to_status" :> "active"
CreateArguments ==
  {Given("agent.message", Flags @@ "to" :> "bob", Empty),
   Given("agent.message", Flags @@ "to" :> "", Empty),
   Given("agent.message", Flags @@ "to" :> "bob", "reason" :> Huge),
   Given("agent.retirement", Flags, Target @@ "reason" :> "old"),
   Given("agent.retirement", Flags, Target @@ "reason" :> "old" @@ "from_status" :> "inactive"),
   Given("agent.promotion", Flags, Promotion("candidate")),
   Given("agent.promotion", Flags, Promotion("retired")),
   Given("agent.genome", Flags, "status" :> "proposed")}

\* Documents by hand: types that are and are not registered, values of every kind.
Some(key, values) == {Put(Empty, key, v) : v \in values} \cup {Empty}
Heads ==
  {Put(Put(h, "id", "x"), "version", "v1") :
     h \in {Merge(t, f) : t \in Some("type", {"agent.rumour", "agent.quarantine",
                                              "agent.retirement", "agent.rollback"}),
                          f \in Some("from", {"ann", Structured})}}
Statuses == {"", Structured, Null, "active", "candidate", "retired", "asleep"}
HandWrittenFields ==
  {Put(Merge(h, Merge(Merge(g, s), t)), "reason", r) :
     h \in Heads, g \in Some("target_agent", {"", Structured, "ann", "bob"}),
     s \in Some("from_status", Statuses),
     t \in Some("to_status", {"active", "rolled_back"}), r \in {"old", Structured}}
HandWrittenTexts ==
  {Text(f, TRUE) : f \in HandWrittenFields}
    \cup {Text(Merge(Flags, Put(Empty, "type", "agent.message")), FALSE)}

\* A program that works on promotions, genomes, proposals or tasks.
ProgramCalls ==
  {"set"} \X {"id"} \X {"", "x"} \cup {"set"} \X {"from"} \X {"ann", "bob"}
    \cup {"set"} \X {"to"} \X {"", "bob"}
    \cup {"field"} \X {"target_agent"} \X {"bob", Structured}
    \cup {"field"} \X {"from_status", "to_status"} \X {"candidate", "active"}
    \cup {"field"} \X {"spawn_reason", "step", "status"} \X {"because"}
ProgramBuilders ==
  {NewBuilder("agent.promotion"), NewGenomeBuilder("a", "worker"),
   NewSpawnProposalBuilder("c"), NewTaskRequestBuilder("e", "ann")}

Symmetry == Permutations(Commands)
===============================================================================
