----------------------------- MODULE Attributes -----------------------------
(***************************************************************************)
(* The attributes of a category and the facts recorded under them.  An     *)
(* administrator edits the definitions while operators register pieces,    *)
(* alone or as components of an assembly, and edit those they registered;  *)
(* each works from the definitions its page loaded.                        *)
(*                                                                         *)
(* There is one plain category, "piece", whose definitions change, and two *)
(* assemblies that expect pieces; a "lamp" is expected and has no category. *)
(* A type of attribute is the set of the values it takes: any for text,    *)
(* "v" for a number, the options of a list.  The answer to a command comes *)
(* before anything else happens in its dialog (see Dialogs).               *)
(***************************************************************************)
EXTENDS Naturals, Sequences, SequencesExt, FiniteSets, TLC

CONSTANTS
    MaxAttributes,  \* definitions a category may have (8 in the code)
    MaxItems,       \* bound on the pieces registered
    MaxSchemaEdits, \* bound on the edits in the form of the category
    MaxFactEdits    \* bound on the edits in the wizard and in the editor

ASSUME AttributesAssumption == {MaxAttributes, MaxItems, MaxSchemaEdits, MaxFactEdits} \subseteq Nat

VARIABLES
    schema,    \* the definitions of "piece"
    items,     \* the pieces: key -> value
    catForm,   \* the form of the category: its drafts
    editor,    \* the editor of a piece, with the definitions its page loaded
    wizard,    \* the wizard of registration
    refused,   \* the dialog whose command was just refused
    schemaEdits, factEdits

attributeVars == <<schema, items, catForm, editor, wizard, refused, schemaEdits, factEdits>>

NoForm == [open |-> FALSE]
IsOpen(form) == form # NoForm
Values == {"u", "v"}
Lists == {{"u"}, {}}
Types == Lists \cup {Values, {"v"}}
Labels == {"", "A", "B"}
suggestAttributeKey(label) == IF label = "A" THEN "a" ELSE IF label = "B" THEN "b" ELSE ""

Def(key, label, type, required) == [key |-> key, label |-> label, type |-> type, required |-> required]
KeysOf(defs) == {defs[i].key : i \in DOMAIN defs}
expectedComponents(category) ==
    CASE category = "truck" -> <<"piece", "lamp">> [] category = "cart" -> <<"piece">> [] OTHER -> <<>>
isAssembly(category) == category \in {"truck", "cart"}
---------------------------------------------------------------------------
(* Definitions and values.                                                 *)

\* A saved attribute keeps its key through every change of its label.
resolveDraftAttributeKey(draft) == IF draft.locked THEN draft.key ELSE suggestAttributeKey(draft.label)

parseAttributeDefinitions(defs) ==
    /\ Len(defs) <= MaxAttributes
    /\ \A i \in DOMAIN defs: defs[i].key # "" /\ defs[i].label # "" /\ defs[i].type # {}
    /\ Cardinality(KeysOf(defs)) = Len(defs)

patchValue(values, key, next) == IF next = "" THEN [k \in DOMAIN values \ {key} |-> values[k]] ELSE (key :> next) @@ values

\* A field takes what its type lets the operator give, or nothing.
FieldEdits(defs, values) ==
    {patchValue(values, d.key, x) : <<d, x>> \in {p \in ToSet(defs) \X (Values \cup {""}): p[2] \in p[1].type \cup {""}}}
FieldsFilled(defs, values) == \A i \in DOMAIN defs: defs[i].required => defs[i].key \in DOMAIN values
\* The browser asks for what an input requires; nothing asks for the choice of a list.
InputsFilled(defs, values) == FieldsFilled(SelectSeq(defs, LAMBDA d: d.type \notin Lists), values)

\* The values of an edit, with what was recorded under keys the category no longer has.
applyCategoryAttributes(defs, values, recorded) ==
    [k \in DOMAIN values \cup (DOMAIN recorded \ KeysOf(defs)) |->
        IF k \in KeysOf(defs) THEN values[k] ELSE recorded[k]]
\* ... refused for a key that is not of the category and for a value its definition does not take.
AttributesAccepted(defs, values) ==
    /\ DOMAIN values \subseteq KeysOf(defs)
    /\ FieldsFilled(defs, values)
    /\ \A i \in DOMAIN defs: defs[i].key \in DOMAIN values => values[defs[i].key] \in defs[i].type

\* What the page of a piece shows: each value under the label of its definition, or its key.
labeledAttributeEntries(defs, values) ==
    {<<defs[i].label, values[defs[i].key]>> : i \in {j \in DOMAIN defs: defs[j].key \in DOMAIN values}}
      \cup {<<k, values[k]>> : k \in DOMAIN values \ KeysOf(defs)}
---------------------------------------------------------------------------
(* The form of the category.                                               *)

draftsFromDefinitions(defs) ==
    [i \in DOMAIN defs |-> [key |-> defs[i].key, locked |-> TRUE, label |-> defs[i].label,
                            type |-> defs[i].type, required |-> defs[i].required]]
definitionsFromDrafts(drafts) ==
    [i \in DOMAIN drafts |->
        Def(resolveDraftAttributeKey(drafts[i]), drafts[i].label, drafts[i].type, drafts[i].required)]
EmptyDraft == [key |-> "", locked |-> FALSE, label |-> "", type |-> Values, required |-> FALSE]

OpenCategory ==
    /\ ~IsOpen(catForm) /\ schemaEdits < MaxSchemaEdits
    /\ catForm' = [open |-> TRUE, drafts |-> draftsFromDefinitions(schema)]
    /\ refused' = "none"
    /\ UNCHANGED <<schema, items, editor, wizard, schemaEdits, factEdits>>

DraftEdits(drafts) ==
    (IF Len(drafts) < MaxAttributes THEN {Append(drafts, EmptyDraft)} ELSE {})
      \cup {RemoveAt(drafts, i) : i \in DOMAIN drafts}
      \cup UNION {{[drafts EXCEPT ![i].label = l, ![i].key = IF @ # "" /\ drafts[i].locked THEN @ ELSE suggestAttributeKey(l)]
                      : l \in Labels}
                    \cup {[drafts EXCEPT ![i].type = t] : t \in Types}
                    \cup {[drafts EXCEPT ![i].required = ~@]} : i \in DOMAIN drafts}

EditCategory(drafts) ==
    /\ schemaEdits < MaxSchemaEdits /\ schemaEdits' = schemaEdits + 1
    /\ catForm' = [catForm EXCEPT !.drafts = drafts]
    /\ refused' = "none"
    /\ UNCHANGED <<schema, items, editor, wizard, factEdits>>

SaveCategory ==
    /\ IsOpen(catForm)
    /\ LET defs == definitionsFromDrafts(catForm.drafts)
       IN IF parseAttributeDefinitions(defs)
          THEN schema' = defs /\ catForm' = NoForm /\ refused' = "none"
          ELSE refused' = "category" /\ UNCHANGED <<schema, catForm>>
    /\ UNCHANGED <<items, editor, wizard, schemaEdits, factEdits>>
---------------------------------------------------------------------------
(* The editor of a piece: it starts with every value recorded, shows the   *)
(* fields of the definitions and sends every value it has.                 *)

OpenEditor(i) ==
    /\ ~IsOpen(editor) /\ factEdits < MaxFactEdits
    /\ editor' = [open |-> TRUE, item |-> i, defs |-> schema, values |-> items[i]]
    /\ refused' = "none"
    /\ UNCHANGED <<schema, items, catForm, wizard, schemaEdits, factEdits>>

EditPiece(values) ==
    /\ factEdits < MaxFactEdits /\ factEdits' = factEdits + 1
    /\ editor' = [editor EXCEPT !.values = values]
    /\ refused' = "none"
    /\ UNCHANGED <<schema, items, catForm, wizard, schemaEdits>>

SavePiece ==
    /\ IsOpen(editor) /\ InputsFilled(editor.defs, editor.values)
    /\ IF AttributesAccepted(schema, editor.values)
       THEN /\ items' = [items EXCEPT ![editor.item] = applyCategoryAttributes(schema, editor.values, @)]
            /\ editor' = NoForm /\ refused' = "none"
       ELSE refused' = "editor" /\ UNCHANGED <<items, editor>>
    /\ UNCHANGED <<schema, catForm, wizard, schemaEdits, factEdits>>

CloseForm ==
    /\ refused' = "none"
    /\ \/ IsOpen(editor) /\ editor' = NoForm /\ UNCHANGED catForm
       \/ IsOpen(catForm) /\ catForm' = NoForm /\ UNCHANGED editor
    /\ UNCHANGED <<schema, items, wizard, schemaEdits, factEdits>>
---------------------------------------------------------------------------
(* The wizard: what is registered, then, for an assembly, its components.  *)

EmptyWizard ==
    [open |-> TRUE, defs |-> schema, mode |-> "INDIVIDUAL", category |-> "", attributes |-> <<>>, step |-> 1,
     baseline |-> <<>>, asking |-> FALSE, registered |-> FALSE]

hasUnsavedChanges ==
    /\ ~wizard.registered
    /\ [wizard EXCEPT !.asking = FALSE] # [EmptyWizard EXCEPT !.defs = wizard.defs]

OpenWizard ==
    /\ ~IsOpen(wizard) /\ Len(items) < MaxItems /\ factEdits < MaxFactEdits
    /\ wizard' = EmptyWizard
    /\ refused' = "none"
    /\ UNCHANGED <<schema, items, catForm, editor, schemaEdits, factEdits>>

MayFill(step) == IsOpen(wizard) /\ wizard.step = step /\ ~wizard.asking /\ ~wizard.registered

Fill(next) ==
    /\ factEdits < MaxFactEdits /\ factEdits' = factEdits + 1
    /\ wizard' = next /\ wizard' # wizard
    /\ refused' = "none"
    /\ UNCHANGED <<schema, items, catForm, editor, schemaEdits>>

ChooseKeepingAttributes(c) ==
    MayFill(1) /\ Fill([wizard EXCEPT !.category = c])

\* Another category forgets the values of the one before; an assembly is not offered by quantity.
ChooseCategory(c) ==
    /\ MayFill(1) /\ (wizard.mode = "QUANTITY" => ~isAssembly(c))
    /\ Fill([wizard EXCEPT !.category = c, !.attributes = <<>>])

ChooseMode(mode) == MayFill(1) /\ Fill([wizard EXCEPT !.mode = mode])

ShownDefs == IF wizard.category = "piece" /\ wizard.mode = "INDIVIDUAL" THEN wizard.defs ELSE <<>>
FillAttribute ==
    MayFill(1) /\ \E values \in FieldEdits(ShownDefs, wizard.attributes): Fill([wizard EXCEPT !.attributes = values])

\* The checklist of the category, with the answers given before under the same names.
mergeBaselineEntries(expected, previous) ==
    [i \in DOMAIN expected |->
        IF \E j \in DOMAIN previous: previous[j].name = expected[i]
        THEN previous[CHOOSE j \in DOMAIN previous: previous[j].name = expected[i]]
        ELSE [name |-> expected[i], status |-> "MISSING", item |-> <<>>]]

Continue ==
    /\ MayFill(1) /\ isAssembly(wizard.category) /\ wizard.mode = "INDIVIDUAL"
    /\ wizard' = [wizard EXCEPT !.step = 2,
                                !.baseline = mergeBaselineEntries(expectedComponents(wizard.category), @)]
    /\ refused' = "none"
    /\ UNCHANGED <<schema, items, catForm, editor, schemaEdits, factEdits>>

GoBack ==
    /\ MayFill(2) /\ wizard' = [wizard EXCEPT !.step = 1]
    /\ refused' = "none"
    /\ UNCHANGED <<schema, items, catForm, editor, schemaEdits, factEdits>>

\* A component that is present carries the values of its own form, one that is not carries none.
AnswerComponent(i, status) ==
    MayFill(2) /\ Fill([wizard EXCEPT !.baseline[i].status = status,
                                      !.baseline[i].item = IF status = "PRESENT" THEN @ ELSE <<>>])
FillComponent(i) ==
    /\ MayFill(2) /\ wizard.baseline[i].status = "PRESENT" /\ wizard.baseline[i].name = "piece"
    /\ \E values \in FieldEdits(wizard.defs, wizard.baseline[i].item):
          Fill([wizard EXCEPT !.baseline[i].item = values])

Present(w) == SelectSeq(w.baseline, LAMBDA e: e.status = "PRESENT")

\* An assembly is registered with all of its present components or not at all.
Registers(w) ==
    IF w.mode = "QUANTITY" THEN <<>>
    ELSE IF w.category = "piece" THEN <<w.attributes>>
    ELSE [i \in DOMAIN Present(w) |-> Present(w)[i].item]

RegistrationAccepted(w) ==
    /\ w.category # "" /\ (w.mode = "QUANTITY" => ~isAssembly(w.category))
    /\ w.mode = "INDIVIDUAL" /\ isAssembly(w.category) =>
          /\ Len(w.baseline) = Len(expectedComponents(w.category))
          /\ {w.baseline[i].name : i \in DOMAIN w.baseline} = ToSet(expectedComponents(w.category))
          /\ \A i \in DOMAIN w.baseline: w.baseline[i].name = "lamp" => w.baseline[i].status # "PRESENT"
          /\ w.attributes = <<>>   \* an assembly has no attributes here
    /\ \A i \in DOMAIN Registers(w): AttributesAccepted(schema, Registers(w)[i])

Register ==
    /\ IsOpen(wizard) /\ ~wizard.asking /\ ~wizard.registered
    /\ wizard.step = 2 \/ wizard.mode = "QUANTITY" \/ ~isAssembly(wizard.category)
    /\ IF wizard.step = 1 THEN InputsFilled(ShownDefs, wizard.attributes)
       ELSE \A i \in DOMAIN Present(wizard):
               Present(wizard)[i].name = "piece" => InputsFilled(wizard.defs, Present(wizard)[i].item)
    /\ Len(items \o Registers(wizard)) <= MaxItems
    /\ IF RegistrationAccepted(wizard)
       THEN /\ items' = items \o Registers(wizard)
            /\ wizard' = [wizard EXCEPT !.registered = TRUE] /\ refused' = "none"
       ELSE refused' = "wizard" /\ UNCHANGED <<items, wizard>>
    /\ UNCHANGED <<schema, catForm, editor, schemaEdits, factEdits>>

CloseWizard ==
    /\ IsOpen(wizard)
    /\ wizard' = IF wizard.asking THEN [wizard EXCEPT !.asking = FALSE]
                 ELSE IF hasUnsavedChanges THEN [wizard EXCEPT !.asking = TRUE] ELSE NoForm
    /\ refused' = "none"
    /\ UNCHANGED <<schema, items, catForm, editor, schemaEdits, factEdits>>
DiscardRegistration ==
    /\ IsOpen(wizard) /\ wizard.asking /\ wizard' = NoForm
    /\ refused' = "none"
    /\ UNCHANGED <<schema, items, catForm, editor, schemaEdits, factEdits>>
---------------------------------------------------------------------------
AttributesInit ==
    /\ schema \in {<<>>, <<Def("a", "A", Values, FALSE)>>}
    /\ items = <<>>
    /\ catForm = NoForm /\ editor = NoForm /\ wizard = NoForm
    /\ refused = "none" /\ schemaEdits = 0 /\ factEdits = 0

AttributesNext ==
    \/ OpenCategory \/ SaveCategory
    \/ IsOpen(catForm) /\ \E drafts \in DraftEdits(catForm.drafts): EditCategory(drafts)
    \/ \E i \in DOMAIN items: OpenEditor(i)
    \/ IsOpen(editor) /\ \E values \in FieldEdits(editor.defs, editor.values): EditPiece(values)
    \/ SavePiece \/ CloseForm
    \/ OpenWizard \/ FillAttribute \/ Continue \/ GoBack \/ Register
    \/ \E c \in {"", "piece", "truck", "cart"}: ChooseCategory(c)
    \/ \E mode \in {"INDIVIDUAL", "QUANTITY"}: ChooseMode(mode)
    \/ IsOpen(wizard) /\ \E i \in DOMAIN wizard.baseline:
          FillComponent(i) \/ \E status \in {"PRESENT", "MISSING", "NOT_APPLICABLE"}: AnswerComponent(i, status)
    \/ CloseWizard \/ DiscardRegistration

AttributesSpec == AttributesInit /\ [][AttributesNext]_attributeVars
---------------------------------------------------------------------------
(* Every key of a category is one attribute's, whatever its labels were    *)
(* and are, and every attribute takes some value.                          *)
AttributesTypeOK ==
    /\ \A i \in DOMAIN schema: schema[i] \in [key: {"a", "b"}, label: Labels \ {""}, type: Types \ {{}}, required: BOOLEAN]
    /\ Cardinality(KeysOf(schema)) = Len(schema) /\ Len(schema) <= MaxAttributes
    /\ \A i \in DOMAIN items: \A k \in DOMAIN items[i]: k \in {"a", "b"} /\ items[i][k] \in Values
    /\ IsOpen(wizard) => wizard.step \in {1, 2}

(* A value recorded under an attribute that stays in the form is shown     *)
(* under that attribute's label after the save, renamed or not.            *)
RenamedAttributeKeepsItsFacts ==
    [][schema' # schema /\ IsOpen(catForm) /\ ~IsOpen(catForm') =>
         \A i \in DOMAIN items: \A j \in DOMAIN catForm.drafts:
            catForm.drafts[j].locked /\ catForm.drafts[j].key \in DOMAIN items[i] =>
               <<catForm.drafts[j].label, items[i][catForm.drafts[j].key]>>
                  \in labeledAttributeEntries(schema', items'[i])]_attributeVars

(* A fact whose attribute the category lost is never lost or rewritten,    *)
(* by whichever edit of its piece.                                         *)
RecordedFactsSurvive ==
    [][\A i \in DOMAIN items: \A k \in DOMAIN items[i] \ KeysOf(schema):
          k \in DOMAIN items'[i] /\ items'[i][k] = items[i][k]]_attributeVars

(* The checklist answers each name its assembly expects, and only those,   *)
(* through any change of category and any step back.                       *)
ChecklistIsOfItsCategory ==
    IsOpen(wizard) /\ wizard.step = 2 =>
        [i \in DOMAIN wizard.baseline |-> wizard.baseline[i].name] = expectedComponents(wizard.category)

(* A registration is refused only for what the operator sees and can mend: *)
(* other definitions than those loaded, a category or a list not chosen,   *)
(* an assembly by quantity, or a component that has no category.           *)
RegistrationIsRefusedForCause ==
    [][refused # "wizard" /\ refused' = "wizard" =>
         \/ wizard.defs # schema \/ wizard.category = ""
         \/ ~FieldsFilled(ShownDefs, wizard.attributes)
         \/ wizard.mode = "QUANTITY" /\ isAssembly(wizard.category)
         \/ wizard.step = 2 /\ \E i \in DOMAIN Present(wizard):
               Present(wizard)[i].name = "lamp" \/ ~FieldsFilled(schema, Present(wizard)[i].item)]_attributeVars

(* The wizard never closes on what was chosen in it without asking: a      *)
(* checklist answered counts even after everything else was cleared.       *)
WizardAsksFirst ==
    [][IsOpen(wizard) /\ ~IsOpen(wizard') /\ ~wizard.asking =>
         wizard.registered \/ (wizard.category = "" /\ wizard.baseline = <<>>)]_attributeVars

(* The facts recorded of a piece outlive every change of its category's    *)
(* attributes, and the wizard asks for what the category asks for now.     *)
FactsFollowTheirAttributes ==
    /\ [](AttributesTypeOK /\ ChecklistIsOfItsCategory)
    /\ RenamedAttributeKeepsItsFacts /\ RecordedFactsSurvive
    /\ RegistrationIsRefusedForCause /\ WizardAsksFirst
=============================================================================
