------------------------------- MODULE Documents -------------------------------
(***************************************************************************)
(* pkg/document and pkg/protocol: envelope documents, the Builder that     *)
(* makes them, the three layers of validation, and their text form.        *)
(*                                                                         *)
(* A document is a function from the keys it has, of the Envelope and of   *)
(* Extra alike, to values.  A value is a string, of which only the ones    *)
(* compared with something are told apart; Structured stands for any value *)
(* that is not a string, well formed for whoever wants one; Null for a key *)
(* without a value or, for to, with an empty list; Huge for a string longer *)
(* than a file may be; Joined for one that begins in one text and ends in  *)
(* another.                                                                *)
(***************************************************************************)
EXTENDS Integers, Sequences, FiniteSets, Functions

Structured == "(not a string)"
Null == "(null)"
Huge == "(longer than 64 KiB)"
Joined == "(of two texts)"

-------------------------------------------------------------------------------
(* The lifecycle of agents.                                                *)

LifecycleStates ==
  {"proposed", "approved_for_sandbox", "sandbox", "candidate", "active", "inactive",
   "retired", "rejected", "failed_sandbox", "rolled_back", "quarantined"}

TransitionTable ==
  {<<"proposed", "approved_for_sandbox">>, <<"proposed", "rejected">>,
   <<"approved_for_sandbox", "sandbox">>,
   <<"sandbox", "candidate">>, <<"sandbox", "failed_sandbox">>,
   <<"candidate", "active">>, <<"candidate", "rolled_back">>,
   <<"active", "inactive">>, <<"active", "quarantined">>, <<"active", "retired">>,
   <<"inactive", "active">>, <<"inactive", "retired">>,
   <<"quarantined", "retired">>}

ValidTransition(from, to) == <<from, to>> \in TransitionTable

AllowedTransitions(from) == {to \in LifecycleStates : ValidTransition(from, to)}

-------------------------------------------------------------------------------
(* The registry of message types.                                          *)

LifecycleTypes == {"agent.promotion", "agent.rollback", "agent.retirement", "agent.quarantine"}

EvolutionTypes == LifecycleTypes \cup
  {"agent.genome", "agent.spawn.proposal", "agent.spawn.approval", "agent.spawn.rejection",
   "agent.evaluation.request", "agent.evaluation.result", "agent.recombine.proposal"}

TaskTypes == {"task.request", "task.result", "task.fail", "task.progress"}

NegotiationReplies ==
  {"negotiation.accept", "negotiation.reject", "negotiation.counter", "negotiation.clarify",
   "negotiation.delegate", "negotiation.commit", "negotiation.abort"}

Registered ==
  EvolutionTypes \cup TaskTypes \cup NegotiationReplies \cup {"agent.message", "negotiation.propose"}

GenomeObjects ==
  {"identity", "capabilities", "tools", "model_policy", "prompt_policy", "routing_policy",
   "thresholds", "constraints", "mutation_policy"}

RequiredFields(mt) ==
  CASE mt = "agent.genome" -> {"agent_id", "kind", "status"} \cup GenomeObjects
    [] mt \in {"agent.promotion", "agent.rollback"} ->
         {"id", "from", "target_agent", "from_status", "to_status"}
    [] mt \in {"agent.retirement", "agent.quarantine"} -> {"id", "from", "target_agent", "reason"}
    [] mt = "agent.spawn.proposal" -> {"id", "from", "candidate_id", "parent_ids", "spawn_reason"}
    [] mt \in {"agent.spawn.approval", "agent.spawn.rejection"} ->
         {"id", "from", "in_reply_to", "candidate_id", "decision"}
    [] mt = "agent.evaluation.request" -> {"id", "from", "target_agent", "benchmark_id", "mode"}
    [] mt = "agent.evaluation.result" ->
         {"id", "from", "target_agent", "overall_decision", "metrics", "hard_constraints_passed"}
    [] mt = "agent.recombine.proposal" -> {"id", "from", "candidate_id", "parent_ids", "goal"}
    [] mt = "agent.message" -> {"id", "from", "to"}
    [] mt \in TaskTypes -> {"id", "from", "to", "exec_id", "step"}
    [] mt = "negotiation.propose" -> {"id", "from", "to", "thread_id"}
    [] mt \in NegotiationReplies -> {"id", "from", "to", "thread_id", "in_reply_to"}

Rows(kind, keys) == keys \X {kind}

\* (Variant: schemas/agent-evolution-protocol.schema.yaml, the copy that is not
\* embedded, which lacks from_status for retirement and quarantine.)
SchemaPropertiesOfCopy(mt) ==
  IF mt \in {"agent.retirement", "agent.quarantine"}
  THEN Rows("text", {"target_agent", "reason"})
  ELSE IF mt \in {"agent.promotion", "agent.rollback"}
       THEN Rows("text", {"target_agent"}) \cup Rows("state", {"from_status", "to_status"})
       ELSE {}

\* The properties that the schema of a type restricts, if it has one: "text" is a
\* string with a character at least, "other" anything well formed but a string.
SchemaProperties(mt) ==
  CASE mt = "agent.genome" ->
         Rows("text", {"agent_id", "kind"}) \cup Rows("state", {"status"})
           \cup Rows("string", {"created_by"}) \cup Rows("other", GenomeObjects \cup {"tags"})
    [] mt \in {"agent.promotion", "agent.rollback"} ->
         Rows("text", {"target_agent"}) \cup Rows("state", {"from_status", "to_status"})
           \cup Rows("string", {"reason"})
    [] mt = "agent.retirement" ->
         Rows("text", {"target_agent", "reason"}) \cup Rows("state", {"from_status"})
           \cup Rows("string", {"retirement_mode"}) \cup Rows("other", {"replace_with"})
    [] mt = "agent.quarantine" ->
         Rows("text", {"target_agent", "reason"}) \cup Rows("state", {"from_status"})
           \cup Rows("other", {"investigation_required"})
    [] mt = "agent.spawn.proposal" ->
         Rows("text", {"candidate_id", "spawn_reason"}) \cup Rows("other", {"parent_ids"})
           \cup Rows("string", {"risk_level", "evaluation_plan"})
    [] mt \in {"agent.spawn.approval", "agent.spawn.rejection"} ->
         Rows("text", {"candidate_id", "decision"})
    [] mt = "agent.evaluation.request" ->
         Rows("text", {"target_agent", "benchmark_id", "mode"})
           \cup Rows("other", {"num_tasks", "compare_against"})
    [] mt = "agent.evaluation.result" ->
         Rows("text", {"target_agent", "overall_decision"})
           \cup Rows("other", {"metrics", "hard_constraints_passed", "safety_violations"})
    [] mt = "agent.recombine.proposal" ->
         Rows("text", {"candidate_id", "goal"}) \cup Rows("other", {"parent_ids"})
    [] OTHER -> {}

-------------------------------------------------------------------------------
(* Validation.  Each layer yields the fields it finds wrong.               *)

\* docHasField.  An empty string counts as a recipient: it makes to a list of one.
Has(d, field) == field \in DOMAIN d /\ d[field] # Null /\ (d[field] = "" => field = "to")

\* A type assertion to string that yields "" when it fails.
TextOf(d, field) ==
  IF field \in DOMAIN d /\ d[field] \notin {Structured, Null} THEN d[field] ELSE ""

ValidateStructural(d) ==
  IF ~Has(d, "type") THEN {"type"}
  ELSE IF d["type"] \notin Registered THEN {"type"} \cup {f \in {"version"} : ~Has(d, f)}
  ELSE {f \in RequiredFields(d["type"]) \cup {"version"} : ~Has(d, f)}

Admits(kind, value) ==
  \/ kind = "text" /\ value \notin {"", Structured, Null}
  \/ kind = "string" /\ value \notin {Structured, Null}
  \/ kind = "state" /\ value \in LifecycleStates
  \/ kind = "other" /\ value = Structured

\* The keys a schema requires are among the required fields of the registry.
ValidateSchema(d) ==
  {row[1] : row \in {r \in SchemaProperties(d["type"]) :
                       r[1] \in DOMAIN d /\ ~Admits(r[2], d[r[1]])}}

SelfAction(d) == TextOf(d, "from") # "" /\ TextOf(d, "from") = TextOf(d, "target_agent")

\* Quarantine and retirement: from_status may be absent.
ValidateTerminalTransition(d, to) ==
  LET from == TextOf(d, "from_status") IN
    {f \in {"from_status"} : from # "" /\ ~ValidTransition(from, to)}
      \cup {f \in {"target_agent"} : SelfAction(d)}

\* Promotion and rollback.
ValidateLifecycleTransition(d) ==
  {f \in {"from_status"} : ~ValidTransition(TextOf(d, "from_status"), TextOf(d, "to_status"))}
    \cup {f \in {"target_agent"} : TextOf(d, "target_agent") = "" \/ SelfAction(d)}

ValidateSemantic(d) ==
  CASE d["type"] \in {"agent.promotion", "agent.rollback"} -> ValidateLifecycleTransition(d)
    [] d["type"] = "agent.quarantine" -> ValidateTerminalTransition(d, "quarantined")
    [] d["type"] = "agent.retirement" -> ValidateTerminalTransition(d, "retired")
    [] OTHER -> {}

\* Structural errors end the validation; the other two layers both run.
Validate(d) ==
  LET structural == ValidateStructural(d) IN
    [structural |-> structural,
     schema |-> IF structural = {} THEN ValidateSchema(d) ELSE {},
     semantic |-> IF structural = {} THEN ValidateSemantic(d) ELSE {}]

Valid(d) == Validate(d) = [structural |-> {}, schema |-> {}, semantic |-> {}]

-------------------------------------------------------------------------------
(* The Builder.                                                            *)

Empty == [k \in {} |-> ""]
Put(f, key, value) == [k \in DOMAIN f \cup {key} |-> IF k = key THEN value ELSE f[k]]
Merge(f, g) == [k \in DOMAIN f \cup DOMAIN g |-> IF k \in DOMAIN f THEN f[k] ELSE g[k]]

EnvelopeKeys ==
  {"type", "version", "id", "from", "to", "created_at", "in_reply_to", "thread_id", "exec_id",
   "ttl", "status", "signature", "signing_key_id"}

\* The envelope fields with a setter of their own.
SetterKeys == {"id", "from", "to", "exec_id", "ttl", "status", "in_reply_to", "thread_id"}

NewBuilder(mt) == [type |-> mt, envelope |-> Empty, extra |-> Empty, failed |-> FALSE]

SetKey(b, key, value) == [b EXCEPT !.envelope = Put(@, key, value)]

\* (Variant: reserved keys are not looked up.)
FieldUnchecked(b, key, value) == [b EXCEPT !.extra = Put(@, key, value)]

\* The error of a reserved key sticks.
Field(b, key, value) ==
  IF key \in EnvelopeKeys THEN [b EXCEPT !.failed = TRUE]
                          ELSE [b EXCEPT !.extra = Put(@, key, value)]

\* The builders that start with some fields set.
NewGenomeBuilder(agentID, kind) ==
  Field(Field(NewBuilder("agent.genome"), "agent_id", agentID), "kind", kind)

NewSpawnProposalBuilder(proposedID) ==
  Field(Field(NewBuilder("agent.spawn.proposal"), "parent_ids", Structured),
        "candidate_id", proposedID)

NewTaskRequestBuilder(execID, from) ==
  SetKey(SetKey(NewBuilder("task.request"), "from", from), "exec_id", execID)

\* The Envelope that Build assembles; but for to, an empty string is the same as no key.
Assemble(b) ==
  Merge(Put(Put(Put(Empty, "type", b.type), "version", "v1"), "created_at", "now"),
        Restrict(b.envelope, {k \in DOMAIN b.envelope : b.envelope[k] = "" => k = "to"}))

Buildable(b) == ~b.failed /\ Valid(Merge(Assemble(b), b.extra))

-------------------------------------------------------------------------------
(* The text form: front matter between delimiter lines, and a body.        *)

\* What a file holds: the fields of its front matter, whether the closing delimiter is
\* there, whether the front matter is no YAML mapping, and whether the file is longer
\* than Parse takes.  What follows the closing delimiter is a body that nobody checks.
LargeFields(fields) == \E k \in DOMAIN fields : fields[k] = Huge
Text(fields, closed) ==
  [fields |-> fields, closed |-> closed, garbled |-> FALSE, large |-> LargeFields(fields)]
Blank == Text(Empty, FALSE)

\* The order in which Serialize writes the keys: the Envelope's, then Extra's sorted.
KeyOrder ==
  <<"type", "version", "id", "from", "to", "created_at", "in_reply_to", "thread_id",
    "exec_id", "ttl", "status", "signature", "signing_key_id",
    "agent_id", "benchmark_id", "candidate_id", "decision", "from_status", "goal", "kind",
    "mode", "parent_ids", "reason", "spawn_reason", "step", "target_agent", "to_status">>

\* What a text cut off after n keys has of document d.
Cut(d, n) == Restrict(d, {KeyOrder[i] : i \in 1..n} \cap DOMAIN d)

\* The front matter between its delimiters.
Serialize(d) == Text(d, TRUE)

TooLarge(text) == text.large

\* A text whose first n keys are in a file before what is left of another: the last of
\* them may have only the beginning of its value.
Pieces(d, n) ==
  {Cut(d, n)} \cup {Put(Cut(d, n), k, Joined) : k \in DOMAIN Cut(d, n) \ DOMAIN Cut(d, n - 1)}

\* What is left of a front matter whose first m keys have been overwritten.
Behind(fields, m) == Restrict(fields, DOMAIN fields \ DOMAIN Cut(fields, m))

\* (Variant: a front matter that ends with the file is taken for complete.)
SplitToEnd(text) == TRUE

\* SplitFrontMatter finds both delimiters.
SplitFrontMatter(text) == text.closed

\* Parse succeeds.  An envelope field may be a scalar or, for to, a list of strings.
Parses(text) ==
  /\ ~TooLarge(text)
  /\ SplitFrontMatter(text)
  /\ ~text.garbled
  /\ \A k \in (EnvelopeKeys \ {"to"}) \cap DOMAIN text.fields : text.fields[k] # Structured
===============================================================================
