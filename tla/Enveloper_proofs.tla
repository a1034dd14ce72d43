---------------------------- MODULE Enveloper_proofs ----------------------------
(***************************************************************************)
(* Proofs about Enveloper, for any arguments and hand-written texts: what  *)
(* Build promises, and what validate --strict accepts.                     *)
(***************************************************************************)
EXTENDS Enveloper, TLAPS

IsText(t) ==
  t = [fields |-> t.fields, closed |-> t.closed, garbled |-> t.garbled, large |-> t.large]

\* The shape of the records.
Shape ==
  /\ process = [c \in Commands |-> [at |-> process[c].at, document |-> process[c].document]]
  /\ product = [envelope |-> product.envelope, extra |-> product.extra,
                shared |-> product.shared]
  /\ IsText(file)
  /\ report = [command |-> report.command, ok |-> report.ok]

\* The last document that Build returned is its own, and valid.
Built ==
  product # NoProduct => product.shared = FALSE /\ Valid(Merge(product.envelope, product.extra))

\* No envelope field but to is anything but a scalar.
Scalars(d) == \A k \in (EnvelopeKeys \ {"to"}) \cap DOMAIN d : d[k] # Structured

\* A command writes only what it has built; a front matter that one of them has written
\* is YAML and, once closed, a document whole.
Written ==
  /\ \A c \in Commands : process[c].at = "opened" => process[c].document \in made
  /\ \A d \in made : Valid(d) /\ Scalars(d)
  /\ author = "create" => file.garbled = FALSE /\ (file.closed => file.fields \in made)

\* The last report is about the file as it is.
Reported ==
  report.command = "strict" => (report.ok <=> Parses(file) /\ Valid(file.fields))

-------------------------------------------------------------------------------
(* The layers of the validation.                                           *)

\* A document without errors has none in any layer.
LEMMA ValidLayers ==
  ASSUME NEW d
  PROVE  Valid(d) <=> /\ ValidateStructural(d) = {}
                      /\ ValidateSchema(d) = {}
                      /\ ValidateSemantic(d) = {}
BY DEF Valid, Validate

\* Only registered types are valid.
LEMMA ValidIsRegistered ==
  ASSUME NEW d, Valid(d)
  PROVE  d["type"] \in Registered
BY ValidLayers DEF ValidateStructural

\* No registered type is written as a structure.
LEMMA RegisteredNames == \A mt \in Registered : mt # Structured
BY DEF Registered, EvolutionTypes, LifecycleTypes, TaskTypes, NegotiationReplies, Structured

\* What the layers together say about a lifecycle document.
LEMMA LifecycleDocument ==
  ASSUME NEW d, Valid(d), d["type"] \in LifecycleTypes, Scalars(d)
  PROVE  /\ d["from"] # d["target_agent"]
         /\ d["type"] \in {"agent.promotion", "agent.rollback"} =>
              ValidTransition(d["from_status"], d["to_status"])
         /\ d["type"] = "agent.retirement" /\ "from_status" \in DOMAIN d =>
              ValidTransition(d["from_status"], "retired")
         /\ d["type"] = "agent.quarantine" /\ "from_status" \in DOMAIN d =>
              ValidTransition(d["from_status"], "quarantined")
<1> DEFINE mt == d["type"]
<1>1. mt \in {"agent.promotion", "agent.rollback", "agent.retirement", "agent.quarantine"}
  BY DEF LifecycleTypes
<1>2. mt \in Registered
  BY DEF LifecycleTypes, EvolutionTypes, Registered
<1>3. ValidateStructural(d) = {} /\ ValidateSchema(d) = {} /\ ValidateSemantic(d) = {}
  BY ValidLayers
<1>4. \A f \in RequiredFields(mt) : Has(d, f)
  BY <1>2, <1>3 DEF ValidateStructural
<1>5. {"from", "target_agent"} \subseteq RequiredFields(mt)
  BY <1>1 DEF RequiredFields, TaskTypes, NegotiationReplies, GenomeObjects
<1>6. \A row \in SchemaProperties(mt) : row[1] \in DOMAIN d => Admits(row[2], d[row[1]])
  BY <1>3 DEF ValidateSchema
<1>7. <<"target_agent", "text">> \in SchemaProperties(mt)
  BY <1>1 DEF SchemaProperties, Rows
<1>8. <<"from_status", "state">> \in SchemaProperties(mt)
  BY <1>1 DEF SchemaProperties, Rows
<1>9. TextOf(d, "from") = d["from"] /\ d["from"] # ""
  BY <1>4, <1>5 DEF Has, TextOf, Scalars, EnvelopeKeys
<1>10. TextOf(d, "target_agent") = d["target_agent"]
  <2>1. "target_agent" \in DOMAIN d /\ Admits("text", d["target_agent"])
    BY <1>4, <1>5, <1>6, <1>7 DEF Has
  <2>2. QED
    BY <2>1 DEF Admits, TextOf
<1>11. "from_status" \in DOMAIN d =>
         TextOf(d, "from_status") = d["from_status"] /\ d["from_status"] # ""
  <2>1. SUFFICES ASSUME "from_status" \in DOMAIN d
                 PROVE  TextOf(d, "from_status") = d["from_status"] /\ d["from_status"] # ""
    OBVIOUS
  <2>2. d["from_status"] \in LifecycleStates
    BY <1>6, <1>8, <2>1 DEF Admits
  <2>3. QED
    BY <2>1, <2>2 DEF LifecycleStates, TextOf, Structured, Null
<1>12. CASE mt \in {"agent.promotion", "agent.rollback"}
  <2>1. ValidateLifecycleTransition(d) = {}
    BY <1>3, <1>12 DEF ValidateSemantic
  <2>2. /\ ~SelfAction(d)
        /\ ValidTransition(TextOf(d, "from_status"), TextOf(d, "to_status"))
    BY <2>1 DEF ValidateLifecycleTransition
  <2>3. {"from_status", "to_status"} \subseteq RequiredFields(mt)
    BY <1>12 DEF RequiredFields, TaskTypes, NegotiationReplies, GenomeObjects
  <2>4. <<"to_status", "state">> \in SchemaProperties(mt)
    BY <1>12 DEF SchemaProperties, Rows
  <2>5. "to_status" \in DOMAIN d /\ "from_status" \in DOMAIN d
    BY <1>4, <2>3 DEF Has
  <2>6. d["to_status"] \in LifecycleStates
    BY <1>6, <2>4, <2>5 DEF Admits
  <2>7. TextOf(d, "to_status") = d["to_status"]
    BY <2>5, <2>6 DEF LifecycleStates, TextOf, Structured, Null
  <2>8. QED
    BY <1>9, <1>10, <1>11, <1>12, <2>2, <2>5, <2>7 DEF SelfAction
<1>13. CASE mt = "agent.quarantine"
  <2>1. ValidateTerminalTransition(d, "quarantined") = {}
    BY <1>3, <1>13 DEF ValidateSemantic
  <2>2. QED
    BY <1>9, <1>10, <1>11, <1>13, <2>1 DEF ValidateTerminalTransition, SelfAction
<1>14. CASE mt = "agent.retirement"
  <2>1. ValidateTerminalTransition(d, "retired") = {}
    BY <1>3, <1>14 DEF ValidateSemantic
  <2>2. QED
    BY <1>9, <1>10, <1>11, <1>14, <2>1 DEF ValidateTerminalTransition, SelfAction
<1>15. QED
  BY <1>1, <1>12, <1>13, <1>14

\* The table names lifecycle states only.
LEMMA TransitionsAreStates ==
  ASSUME NEW from, NEW to, ValidTransition(from, to)
  PROVE  from \in LifecycleStates /\ to \in AllowedTransitions(from)
BY DEF ValidTransition, TransitionTable, LifecycleStates, AllowedTransitions

-------------------------------------------------------------------------------
(* A document that create builds.                                          *)

\* The Builder that create makes, and its document, are of the right shape.
LEMMA CreatedDocument ==
  ASSUME NEW a \in Arguments, Buildable(FromFlags(a))
  PROVE  LET d == Merge(Assemble(FromFlags(a)), FromFlags(a).extra) IN
           /\ Valid(d) /\ Scalars(d)
           /\ {"type", "version"} \subseteq DOMAIN d
<1> DEFINE b == FromFlags(a)
           d == Merge(Assemble(b), b.extra)
<1>1. /\ b.envelope = a.flags
      /\ b.extra = Restrict(a.fields, DOMAIN a.fields \ EnvelopeKeys)
  BY DEF FromFlags, NewBuilder
<1>2. Valid(d)
  BY DEF Buildable
<1>3. DOMAIN b.extra = DOMAIN a.fields \ EnvelopeKeys
  BY <1>1 DEF Restrict
<1>4. \A k \in DOMAIN a.flags : a.flags[k] = Structured => k = "to"
  BY EnveloperAssumption
<1>5. /\ {"type", "version"} \subseteq DOMAIN Assemble(b)
      /\ \A k \in DOMAIN Assemble(b) : Assemble(b)[k] = Structured => k = "to"
  <2> DEFINE head == Put(Put(Put(Empty, "type", b.type), "version", "v1"), "created_at", "now")
             rest == Restrict(b.envelope, {k \in DOMAIN b.envelope : b.envelope[k] = "" => k = "to"})
  <2>1. /\ DOMAIN head = {"type", "version", "created_at"}
        /\ head["type"] = b.type /\ head["version"] = "v1" /\ head["created_at"] = "now"
    BY DEF Put, Empty
  <2>2. \A k \in DOMAIN rest : k \in DOMAIN a.flags /\ rest[k] = a.flags[k]
    BY <1>1 DEF Restrict
  <2>3. Assemble(b) = Merge(head, rest)
    BY DEF Assemble
  <2> HIDE DEF head, rest, b
  <2>4. b.type # Structured
    <3>1. d["type"] = b.type
      BY <2>1, <2>3 DEF Merge
    <3>2. d["type"] \in Registered
      BY <1>2, ValidIsRegistered
    <3>3. QED
      BY <3>1, <3>2, RegisteredNames
  <2>5. QED
    BY <1>4, <2>1, <2>2, <2>3, <2>4 DEF Merge, Structured
<1>6. \A k \in DOMAIN d :
        k \in EnvelopeKeys => k \in DOMAIN Assemble(b) /\ d[k] = Assemble(b)[k]
  BY <1>3 DEF Merge
<1>7. QED
  BY <1>2, <1>5, <1>6 DEF Scalars, Merge

-------------------------------------------------------------------------------
(* The invariant.                                                          *)

Inv == TypeOK /\ Shape /\ Built /\ Written /\ Reported

\* It holds at the start.
LEMMA InitInv == Init => Inv
<1> SUFFICES ASSUME Init PROVE Inv
  OBVIOUS
<1> USE DEF Init
<1>1. IsBuilder(builder)
  <2>1. IsBuilder(NewBuilder(""))
    BY DEF IsBuilder, NewBuilder, Empty
  <2>2. QED
    BY <2>1, EnveloperAssumption
<1>2. TypeOK
  BY <1>1 DEF TypeOK, NoProduct, NoReport, Idle, Empty
<1>3. Shape
  BY DEF Shape, NoProduct, NoReport, Idle, Blank, Text, IsText
<1>4. Built /\ Written /\ Reported
  BY DEF Built, Written, Reported, Idle, NoReport
<1>5. QED
  BY <1>2, <1>3, <1>4 DEF Inv

\* Setter calls keep the Builder one, and do not reach a document that was built.
LEMMA CallSetterStep == ASSUME Inv, CallSetter PROVE Inv'
<1>1. PICK call \in Calls :
        \/ call[1] = "set" /\ builder' = SetKey(builder, call[2], call[3])
        \/ call[1] = "field" /\ builder' = Field(builder, call[2], call[3])
  BY DEF CallSetter
<1>2. UNCHANGED <<use, product, process, file, author, made, report>>
  BY DEF CallSetter, commandVars
<1>3. IsBuilder(builder)
  BY DEF Inv, TypeOK
<1>4. IsBuilder(builder')
  <2>1. CASE call[1] = "set" /\ builder' = SetKey(builder, call[2], call[3])
    <3>1. call[2] \in SetterKeys
      BY <2>1, EnveloperAssumption
    <3>2. builder' = [type |-> builder.type, envelope |-> Put(builder.envelope, call[2], call[3]),
                      extra |-> builder.extra, failed |-> builder.failed]
      BY <1>3, <2>1 DEF IsBuilder, SetKey
    <3>3. QED
      BY <1>3, <3>1, <3>2 DEF IsBuilder, Put
  <2>2. CASE builder' = Field(builder, call[2], call[3])
    <3>1. CASE call[2] \in EnvelopeKeys
      <4>1. builder' = [type |-> builder.type, envelope |-> builder.envelope,
                        extra |-> builder.extra, failed |-> TRUE]
        BY <1>3, <2>2, <3>1 DEF IsBuilder, Field
      <4>2. QED
        BY <1>3, <4>1 DEF IsBuilder
    <3>2. CASE call[2] \notin EnvelopeKeys
      <4>1. builder' = [type |-> builder.type, envelope |-> builder.envelope,
                        extra |-> Put(builder.extra, call[2], call[3]),
                        failed |-> builder.failed]
        BY <1>3, <2>2, <3>2 DEF IsBuilder, Field
      <4>2. QED
        BY <1>3, <3>2, <4>1 DEF IsBuilder, Put
    <3>3. QED
      BY <3>1, <3>2
  <2>3. QED
    BY <1>1, <2>1, <2>2
<1>5. TypeOK'
  BY <1>2, <1>4 DEF Inv, TypeOK
<1>6. QED
  BY <1>2, <1>5 DEF Inv, Shape, Built, Written, Reported

\* Build returns a valid document with maps of its own.
LEMMA BuildStep == ASSUME Inv, Build PROVE Inv'
<1>1. /\ Buildable(builder)
      /\ product' = [envelope |-> Assemble(builder), extra |-> builder.extra, shared |-> FALSE]
      /\ UNCHANGED <<use, builder, process, file, author, made, report>>
  BY DEF Build, commandVars
<1>2. IsBuilder(builder)
  BY DEF Inv, TypeOK
<1>3. Built'
  BY <1>1 DEF Buildable, Built
<1>4. TypeOK'
  BY <1>1, <1>2 DEF Inv, TypeOK, IsBuilder
<1>5. QED
  BY <1>1, <1>3, <1>4 DEF Inv, Shape, Written, Reported

\* create records what it builds before it empties the file.
LEMMA CreateStep == ASSUME Inv, NEW c \in Commands, NEW a \in Arguments, Create(c, a) PROVE Inv'
<1> DEFINE b == FromFlags(a)
           d == Merge(Assemble(b), b.extra)
<1>1. /\ Buildable(b)
      /\ process' = [process EXCEPT ![c] = [at |-> "opened", document |-> d]]
      /\ made' = made \cup {d}
      /\ file' = Blank /\ author' = "create" /\ report' = NoReport
      /\ UNCHANGED <<use, builder, product>>
  BY DEF Create, libraryVars
<1>2. Valid(d) /\ Scalars(d) /\ {"type", "version"} \subseteq DOMAIN d
  BY <1>1, CreatedDocument
<1> HIDE DEF b, d
<1>3. process' = [e \in Commands |-> IF e = c THEN [at |-> "opened", document |-> d]
                                     ELSE process[e]]
  BY <1>1 DEF Inv, Shape
<1>4. TypeOK'
  BY <1>1, <1>2, <1>3 DEF Inv, TypeOK, NoReport
<1>5. Shape'
  BY <1>1, <1>3 DEF Inv, Shape, NoReport, Blank, Text, IsText
<1>6. Written'
  BY <1>1, <1>2, <1>3 DEF Inv, Written, Blank, Text
<1>7. QED
  BY <1>1, <1>4, <1>5, <1>6 DEF Inv, Built, Reported, NoReport

\* The end of a create command; alone, only a whole write closes the front matter.
LEMMA EndOfCreate ==
  ASSUME Inv, NEW c \in Commands,
         process' = [process EXCEPT ![c] = Idle],
         UNCHANGED <<use, builder, product, made>>,
         \/ UNCHANGED <<file, author, report>>
         \/ /\ author' \in {"create", "creates"} /\ report' = NoReport
            /\ IsText(file)'
            /\ author' = "create" =>
                 file'.garbled = FALSE /\ (file'.closed => file'.fields \in made)
  PROVE  Inv'
<1>1. process' = [e \in Commands |-> IF e = c THEN [at |-> "idle", document |-> Empty]
                                     ELSE process[e]]
  BY DEF Inv, Shape, Idle
<1>2. TypeOK'
  <2>1. report'.command \in {"none", "validate", "strict", "inspect"} /\ report'.ok \in BOOLEAN
    <3>1. CASE report' = NoReport
      BY <3>1 DEF NoReport
    <3>2. CASE UNCHANGED report
      BY <3>2 DEF Inv, TypeOK
    <3>3. QED
      BY <3>1, <3>2
  <2>2. \A e \in Commands : process'[e].at \in {"idle", "opened"}
    BY <1>1 DEF Inv, TypeOK
  <2>3. author' \in {"nobody", "create", "creates", "hand"}
    BY DEF Inv, TypeOK
  <2>4. QED
    BY <2>1, <2>2, <2>3, Zenon DEF Inv, TypeOK
<1>3. Shape'
  BY <1>1 DEF Inv, Shape, NoReport
<1>4. Written'
  BY <1>1 DEF Inv, Written
<1>5. Built' /\ Reported'
  BY DEF Inv, Built, Reported, NoReport
<1>6. QED
  BY <1>2, <1>3, <1>4, <1>5 DEF Inv

\* A whole write, a short one and none.
LEMMA WriteSteps ==
  ASSUME Inv, NEW c \in Commands, WriteOut(c) \/ WriteShort(c) \/ Killed(c)
  PROVE  Inv'
<1>1. CASE WriteOut(c)
  <2>1. /\ process[c].at = "opened"
        /\ process' = [process EXCEPT ![c] = Idle]
        /\ author' = "create" /\ report' = NoReport
        /\ UNCHANGED <<use, builder, product, made>>
    BY <1>1 DEF WriteOut, libraryVars
  <2>2. PICK text : text = Serialize(process[c].document)
    OBVIOUS
  <2>3. text = [fields |-> process[c].document, closed |-> TRUE, garbled |-> FALSE,
                large |-> LargeFields(process[c].document)]
    BY <2>2 DEF Serialize, Text
  <2>4. file' = [text EXCEPT !.large = text.large \/ file.large]
    BY <1>1, <2>2 DEF WriteOut
  <2>5. file' = [fields |-> process[c].document, closed |-> TRUE, garbled |-> FALSE,
                 large |-> file'.large]
    BY <2>3, <2>4, Zenon
  <2>6. process[c].document \in made
    BY <2>1 DEF Inv, Written
  <2>7. IsText(file)' /\ file'.garbled = FALSE /\ file'.fields \in made
    BY <2>5, <2>6 DEF IsText
  <2>8. QED
    BY <2>1, <2>7, EndOfCreate
<1>2. CASE WriteShort(c)
  <2>1. /\ process' = [process EXCEPT ![c] = Idle]
        /\ report' = NoReport
        /\ UNCHANGED <<use, builder, product, made>>
    BY <1>2 DEF WriteShort, libraryVars
  <2>2. \/ /\ author' = "create"
           /\ \E n : file' = Text(Cut(process[c].document, n), FALSE)
        \/ /\ author' = "creates"
           /\ \E fields, garbled :
                file' = [file EXCEPT !.fields = fields, !.garbled = garbled]
    BY <1>2 DEF WriteShort
  <2>3. CASE author' = "create" /\ \E n : file' = Text(Cut(process[c].document, n), FALSE)
    <3>1. PICK n : file' = Text(Cut(process[c].document, n), FALSE)
      BY <2>3
    <3>2. IsText(file)' /\ file'.garbled = FALSE /\ file'.closed = FALSE
      BY <3>1 DEF Text, IsText
    <3>3. QED
      BY <2>1, <2>3, <3>2, EndOfCreate
  <2>4. CASE /\ author' = "creates"
             /\ \E fields, garbled :
                  file' = [file EXCEPT !.fields = fields, !.garbled = garbled]
    <3>1. PICK fields, garbled :
            file' = [file EXCEPT !.fields = fields, !.garbled = garbled]
      BY <2>4
    <3>2. IsText(file)
      BY DEF Inv, Shape
    <3>3. file' = [fields |-> fields, closed |-> file.closed, garbled |-> garbled,
                   large |-> file.large]
      BY <3>1, <3>2 DEF IsText
    <3>4. IsText(file)'
      BY <3>3 DEF IsText
    <3>5. QED
      BY <2>1, <2>4, <3>4, EndOfCreate
  <2>5. QED
    BY <2>2, <2>3, <2>4
<1>3. CASE Killed(c)
  BY <1>3, EndOfCreate DEF Killed, libraryVars
<1>4. QED
  BY <1>1, <1>2, <1>3

\* validate and inspect read the file.
LEMMA ReadSteps ==
  ASSUME Inv, (\E strict \in BOOLEAN : ValidateFile(strict)) \/ InspectFile
  PROVE  Inv'
<1>1. ASSUME NEW command, NEW ok, Reports(command, ok),
             command \in {"validate", "strict", "inspect"}, ok \in BOOLEAN,
             command = "strict" => (ok <=> Parses(file) /\ Valid(file.fields))
      PROVE  Inv'
  <2>1. /\ report' = [command |-> command, ok |-> ok]
        /\ UNCHANGED <<use, builder, product, process, file, author, made>>
    BY <1>1 DEF Reports, libraryVars
  <2>2. TypeOK'
    <3>1. report'.command = command /\ report'.ok = ok
      BY <2>1
    <3>2. report'.command \in {"none", "validate", "strict", "inspect"}
      BY <1>1, <3>1
    <3>3. report'.ok \in BOOLEAN
      BY <1>1, <3>1, Zenon
    <3>4. QED
      BY <2>1, <3>2, <3>3, Zenon DEF Inv, TypeOK, IsBuilder
  <2>3. Reported'
    BY <1>1, <2>1 DEF Reported
  <2>4. QED
    BY <2>1, <2>2, <2>3 DEF Inv, Shape, Built, Written
<1>2. ASSUME NEW strict \in BOOLEAN, ValidateFile(strict) PROVE Inv'
  <2> DEFINE errors == Validate(file.fields)
             ok == /\ Parses(file)
                   /\ errors.structural = {} /\ errors.schema = {}
                   /\ strict => errors.semantic = {}
  <2>1. Reports(IF strict THEN "strict" ELSE "validate", ok)
    BY <1>2 DEF ValidateFile
  <2>2. errors.structural = {} /\ errors.schema = {} /\ errors.semantic = {}
          <=> Valid(file.fields)
    BY DEF Valid, Validate
  <2>3. ok \in BOOLEAN /\ (strict => (ok <=> Parses(file) /\ Valid(file.fields)))
    BY <2>2
  <2> HIDE DEF ok
  <2>4. QED
    BY <1>1, <2>1, <2>3
<1>3. CASE InspectFile
  <2> DEFINE ok == Parses(file) /\ ValidateStructural(file.fields) = {}
  <2>1. Reports("inspect", ok)
    BY <1>3 DEF InspectFile
  <2>2. ok \in BOOLEAN
    OBVIOUS
  <2> HIDE DEF ok
  <2>3. QED
    BY <1>1, <2>1, <2>2
<1>4. QED
  BY <1>2, <1>3

\* The conjunction is inductive.
LEMMA Inductive == Spec => []Inv
<1>1. Inv /\ [Next]_vars => Inv'
  <2> SUFFICES ASSUME Inv, [Next]_vars PROVE Inv'
    OBVIOUS
  <2>1. CASE SaveByHand
    <3>1. /\ file' \in HandWritten /\ author' = "hand" /\ report' = NoReport
          /\ UNCHANGED <<use, builder, product, process, made>>
      BY <2>1 DEF SaveByHand, libraryVars
    <3>2. IsText(file)'
      BY <3>1, EnveloperAssumption DEF Text, IsText
    <3>3. QED
      BY <3>1, <3>2 DEF Inv, TypeOK, Shape, Built, Written, Reported, NoReport
  <2>2. CASE UNCHANGED vars
    BY <2>2 DEF vars, libraryVars, commandVars, Inv, TypeOK, Shape, Built, Written, Reported
  <2>3. QED
    BY <2>1, <2>2, CallSetterStep, BuildStep, CreateStep, WriteSteps, ReadSteps DEF Next
<1>2. QED
  BY <1>1, InitInv, PTL DEF Spec

-------------------------------------------------------------------------------
(* The theorems.                                                           *)

\* Whatever a program calls on its Builder, no document gets a key of the Envelope in
\* Extra, and the commands keep their types.
THEOREM TypeCorrect == Spec => []TypeOK
<1>1. Inv => TypeOK
  BY DEF Inv
<1>2. QED
  BY <1>1, Inductive, PTL

\* A document that Build has returned stays valid, whatever is called on its Builder.
THEOREM ProductsStayValid == Spec => []BuiltStaysValid
<1>1. Inv => BuiltStaysValid
  BY DEF Inv, Built, BuiltStaysValid, Product
<1>2. QED
  BY <1>1, Inductive, PTL

\* Of what create commands leave in a file, killed, cut off or over each other, validate
\* --strict accepts the documents they built, and what is of one command's writing only
\* if it is such a document.
THEOREM OnlyWholeDocuments == Spec => []ReadBack
<1>1. Inv => ReadBack
  <2> SUFFICES ASSUME Inv, report.command = "strict", author \in {"create", "creates"}
               PROVE  /\ /\ file.closed /\ file.fields \in made
                         /\ ~TooLarge(file) /\ ~file.garbled
                         => report.ok
                      /\ report.ok /\ author = "create" => file.closed /\ file.fields \in made
    BY DEF ReadBack
  <2>1. report.ok <=> Parses(file) /\ Valid(file.fields)
    BY DEF Inv, Reported
  <2>2. author = "create" /\ file.closed => file.fields \in made
    BY DEF Inv, Written
  <2>3. file.fields \in made => Valid(file.fields) /\ Scalars(file.fields)
    BY DEF Inv, Written
  <2>4. Parses(file) <=> ~TooLarge(file) /\ file.closed /\ ~file.garbled /\ Scalars(file.fields)
    BY DEF Parses, SplitFrontMatter, Scalars
  <2>5. QED
    BY <2>1, <2>2, <2>3, <2>4, Zenon
<1>2. QED
  BY <1>1, Inductive, PTL

\* Whoever wrote the file: the layers of the validation leave no gap through which a
\* lifecycle document moves an agent off the transition table, or its own sender.
THEOREM LayersLeaveNoGap == Spec => []AcceptedMoves
<1>1. Inv => AcceptedMoves
  <2> DEFINE d == file.fields
  <2> SUFFICES ASSUME Inv, report.command = "strict", report.ok, d["type"] \in LifecycleTypes
               PROVE  AcceptedMoves
    BY DEF AcceptedMoves
  <2>1. Parses(file) /\ Valid(d)
    BY DEF Inv, Reported
  <2>2. Scalars(d)
    BY <2>1 DEF Parses, Scalars
  <2>3. /\ d["from"] # d["target_agent"]
        /\ d["type"] \in {"agent.promotion", "agent.rollback"} =>
             ValidTransition(d["from_status"], d["to_status"])
        /\ d["type"] = "agent.retirement" /\ "from_status" \in DOMAIN d =>
             ValidTransition(d["from_status"], "retired")
        /\ d["type"] = "agent.quarantine" /\ "from_status" \in DOMAIN d =>
             ValidTransition(d["from_status"], "quarantined")
    BY <2>1, <2>2, LifecycleDocument
  <2>4. d["type"] \in {"agent.promotion", "agent.rollback", "agent.retirement", "agent.quarantine"}
    BY DEF LifecycleTypes
  <2> HIDE DEF d
  <2>5. ASSUME d["type"] \notin {"agent.promotion", "agent.rollback"}, "from_status" \in DOMAIN d
        PROVE  d["from_status"] \in {s \in LifecycleStates :
                 \E to \in AllowedTransitions(s) :
                   to = (IF d["type"] = "agent.retirement" THEN "retired" ELSE "quarantined")}
    <3> DEFINE to == IF d["type"] = "agent.retirement" THEN "retired" ELSE "quarantined"
    <3>1. ValidTransition(d["from_status"], to)
      BY <2>3, <2>4, <2>5
    <3>2. QED
      BY <3>1, TransitionsAreStates
  <2>6. QED
    BY <2>3, <2>5 DEF AcceptedMoves, d
<1>2. QED
  BY <1>1, Inductive, PTL
===============================================================================
