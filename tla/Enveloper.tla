------------------------------- MODULE Enveloper -------------------------------
(***************************************************************************)
(* Users of pkg/document: a program that makes documents with a Builder it *)
(* keeps using, and the commands of cmd/enveloper on one file.             *)
(*                                                                         *)
(* create builds a document and writes it with os.WriteFile, which empties *)
(* the file and then writes it: another create, an editor, a full disk or  *)
(* the end of the process may come between.  validate and inspect read the *)
(* whole file.  The two kinds of use share nothing, so a behaviour has one *)
(* of them.                                                                *)
(***************************************************************************)
EXTENDS Documents

CONSTANTS
  Commands,      \* create commands running at the same time
  Arguments,     \* their arguments
  HandWritten,   \* texts that an author saves in the file
  Calls,         \* the setter calls a program makes, as <<setter, key, value>>
  Beginnings,    \* the builders a program starts from
  MaxCreates     \* bound: create commands that build a document

\* A Builder whose Extra holds no key of the Envelope, which yaml.Marshal answers
\* with a panic.
IsBuilder(b) ==
  /\ b = [type |-> b.type, envelope |-> b.envelope, extra |-> b.extra, failed |-> b.failed]
  /\ b.failed \in BOOLEAN
  /\ DOMAIN b.envelope \subseteq SetterKeys
  /\ DOMAIN b.extra \cap EnvelopeKeys = {}

ASSUME EnveloperAssumption ==
  /\ \A a \in Arguments : \A k \in DOMAIN a.flags :
       k \in {"id", "from", "to", "exec_id"} /\ (a.flags[k] = Structured => k = "to")
  /\ \A t \in HandWritten : t = Text(t.fields, t.closed)
  /\ \A call \in Calls : call[1] = "set" => call[2] \in SetterKeys
  /\ \A b \in Beginnings : IsBuilder(b)
  /\ MaxCreates \in Nat

VARIABLES
  use,       \* "library" or "commands"
  builder,   \* the program's Builder
  product,   \* the document that its last successful Build returned
  process,   \* control state of each create command
  file,      \* the text in the file
  author,    \* history: whose text the front matter is; "creates" when of several
  made,      \* history: the documents that create commands have built
  report     \* the last validate or inspect of the file as it is

libraryVars == <<builder, product>>
commandVars == <<process, file, author, made, report>>
vars == <<use, libraryVars, commandVars>>

NoProduct == [envelope |-> Empty, extra |-> Empty, shared |-> FALSE]
Idle == [at |-> "idle", document |-> Empty]
NoReport == [command |-> "none", ok |-> FALSE]

Init ==
  /\ use \in {"library", "commands"}
  /\ builder \in IF use = "library" THEN Beginnings ELSE {NewBuilder("")}
  /\ product = NoProduct
  /\ process = [c \in Commands |-> Idle]
  /\ file = Blank
  /\ author = "nobody"
  /\ made = {}
  /\ report = NoReport

TypeOK ==
  /\ use \in {"library", "commands"}
  /\ IsBuilder(builder)
  /\ product.shared \in BOOLEAN
  /\ DOMAIN product.extra \cap EnvelopeKeys = {}
  /\ \A c \in Commands : process[c].at \in {"idle", "opened"}
  /\ author \in {"nobody", "create", "creates", "hand"}
  /\ \A d \in made : {"type", "version"} \subseteq DOMAIN d
  /\ report.command \in {"none", "validate", "strict", "inspect"}
  /\ report.ok \in BOOLEAN

-------------------------------------------------------------------------------
(* A program and its Builder.                                              *)

CallSetter ==
  /\ use = "library"
  /\ \E call \in Calls :
       \/ call[1] = "set" /\ builder' = SetKey(builder, call[2], call[3])
       \/ call[1] = "field" /\ builder' = Field(builder, call[2], call[3])
  /\ UNCHANGED <<use, product, commandVars>>

\* (Variant: the document gets the Builder's own Extra map.)
BuildSharing ==
  /\ use = "library"
  /\ Buildable(builder)
  /\ product' = [envelope |-> Assemble(builder), extra |-> builder.extra, shared |-> TRUE]
  /\ UNCHANGED <<use, builder, commandVars>>

\* Build copies the Extra map; its error changes nothing.
Build ==
  /\ use = "library"
  /\ Buildable(builder)
  /\ product' = [envelope |-> Assemble(builder), extra |-> builder.extra, shared |-> FALSE]
  /\ UNCHANGED <<use, builder, commandVars>>

\* The product as its fields are now.
Product == Merge(product.envelope, IF product.shared THEN builder.extra ELSE product.extra)

-------------------------------------------------------------------------------
(* create.                                                                 *)

\* The Builder that create makes of its flags.  An empty flag but --to is no flag, which
\* Assemble sees to; the --field flags are a function, since the last with a key counts.
FromFlags(a) ==
  LET keys == DOMAIN a.fields IN
    [NewBuilder(a.type) EXCEPT !.envelope = a.flags,
                               !.extra = Restrict(a.fields, keys \ EnvelopeKeys),
                               !.failed = (keys \cap EnvelopeKeys # {})]

\* create refuses unknown types and what Build refuses, before it opens the file.
Create(c, a) ==
  LET b == FromFlags(a)
      document == Merge(Assemble(b), b.extra)
  IN
  /\ use = "commands"
  /\ process[c] = Idle
  /\ Cardinality(made) < MaxCreates
  /\ a.type \in Registered
  /\ Buildable(b)
  /\ process' = [process EXCEPT ![c] = [at |-> "opened", document |-> document]]
  /\ made' = made \cup {document}
  /\ file' = Blank
  /\ author' = "create"
  /\ report' = NoReport
  /\ UNCHANGED <<use, libraryVars>>

\* The text goes to the start of the file.  What another writer put there since the
\* file was emptied stays behind it when it was longer.
WriteOut(c) ==
  /\ process[c].at = "opened"
  /\ LET text == Serialize(process[c].document) IN
       file' = [text EXCEPT !.large = text.large \/ file.large]
  /\ author' = "create"
  /\ process' = [process EXCEPT ![c] = Idle]
  /\ report' = NoReport
  /\ UNCHANGED <<use, libraryVars, made>>

\* The disk is full: a part of the text has been written, which is longer than what was
\* in the file or stands before the rest of it.  That rest may close the front matter;
\* a key in both, or the line where they meet, may make it no YAML mapping.  (Of three
\* writers, what is left is taken to be in the order of KeyOrder.)
WriteShort(c) ==
  /\ process[c].at = "opened"
  /\ \E n \in 0..Len(KeyOrder) :
       \/ /\ file' = Text(Cut(process[c].document, n), FALSE)
          /\ author' = "create"
       \/ /\ file # Blank
          /\ \E part \in Pieces(process[c].document, n), m \in 0..Len(KeyOrder),
                garbled \in BOOLEAN :
               LET rest == Behind(file.fields, m) IN
                 /\ DOMAIN part \cap DOMAIN rest # {} => garbled
                 /\ LargeFields(part) => file.large
                 /\ file' = [file EXCEPT !.fields = Merge(part, rest), !.garbled = garbled]
          /\ author' = "creates"
  /\ process' = [process EXCEPT ![c] = Idle]
  /\ report' = NoReport
  /\ UNCHANGED <<use, libraryVars, made>>

\* The command is killed, or its write fails, with nothing written.
Killed(c) ==
  /\ process[c].at = "opened"
  /\ process' = [process EXCEPT ![c] = Idle]
  /\ UNCHANGED <<use, libraryVars, file, author, made, report>>

\* An author saves the file.  (Bound: once, before any create command.)
SaveByHand ==
  /\ use = "commands"
  /\ author = "nobody"
  /\ file' \in HandWritten
  /\ author' = "hand"
  /\ report' = NoReport
  /\ UNCHANGED <<use, libraryVars, process, made>>

-------------------------------------------------------------------------------
(* validate and inspect.                                                   *)

Reports(command, ok) ==
  /\ use = "commands"
  /\ report' = [command |-> command, ok |-> ok]
  /\ UNCHANGED <<use, libraryVars, process, file, author, made>>

\* Without --strict, the errors of the semantic layer are only printed.
ValidateFile(strict) ==
  LET errors == Validate(file.fields) IN
    Reports(IF strict THEN "strict" ELSE "validate",
            /\ Parses(file)
            /\ errors.structural = {} /\ errors.schema = {}
            /\ strict => errors.semantic = {})

InspectFile == Reports("inspect", Parses(file) /\ ValidateStructural(file.fields) = {})

Next ==
  \/ CallSetter
  \/ Build
  \/ \E c \in Commands :
       \/ \E a \in Arguments : Create(c, a)
       \/ WriteOut(c)
       \/ WriteShort(c)
       \/ Killed(c)
  \/ SaveByHand
  \/ \E strict \in BOOLEAN : ValidateFile(strict)
  \/ InspectFile

Spec == Init /\ [][Next]_vars

-------------------------------------------------------------------------------
(* Properties.                                                             *)

\* builder.go: "callers cannot produce invalid documents".  A document that Build has
\* returned stays valid whatever is called on its Builder afterwards.
BuiltStaysValid == product # NoProduct => Valid(Product)

\* Of the files that create commands have written, whole or in part and over each
\* other, validate --strict accepts those whose front matter is a document that a
\* command has built, unless the file is too long or its YAML broken.  It accepts no
\* others, but for a write that failed midway over the text of another command: a
\* reader may take the two for one document that nobody has built.
ReadBack ==
  report.command = "strict" /\ author \in {"create", "creates"} =>
    /\ /\ file.closed /\ file.fields \in made
       /\ ~TooLarge(file) /\ ~file.garbled
       => report.ok
    /\ report.ok /\ author = "create" => file.closed /\ file.fields \in made

\* A lifecycle document that validate --strict accepts, whoever wrote it, names a
\* transition of the table or, to quarantine or retire, no from_status at all, and is
\* not sent by its target: no value slips between the layers of the validation.
AcceptedMoves ==
  LET d == file.fields IN
  report.command = "strict" /\ report.ok /\ d["type"] \in LifecycleTypes =>
    /\ d["from"] # d["target_agent"]
    /\ IF d["type"] \in {"agent.promotion", "agent.rollback"}
       THEN ValidTransition(d["from_status"], d["to_status"])
       ELSE "from_status" \in DOMAIN d =>
              d["from_status"] \in {s \in LifecycleStates :
                 \E to \in AllowedTransitions(s) :
                   to = (IF d["type"] = "agent.retirement" THEN "retired" ELSE "quarantined")}
===============================================================================
