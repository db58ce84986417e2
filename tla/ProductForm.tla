----------------------------- MODULE ProductForm -----------------------------
(***************************************************************************)
(* One product of the catalog under its editors, and under the checkout    *)
(* that takes units of it meanwhile.                                       *)
(*                                                                         *)
(* A form carries what its page was loaded with. The request reads the     *)
(* rows (get_object with its prefetch), validates, and writes where the    *)
(* form differs from what it read; nothing locks the variants.             *)
(***************************************************************************)
EXTENDS Naturals, FiniteSets, Functions

CONSTANTS
    Skus,          \* the SKUs a variant of the product may carry
    OptionValues,  \* option values, "15mm" of the option "Size"
    OptionOf,      \* [OptionValues -> option]
    InitialForm,   \* [choices, variants], as the product was created
    Buyers,        \* orders, each of one unit
    Editors,       \* requests that edit the product
    MaxVariants,   \* bound on the variant rows ever created
    MaxEdits       \* bound on the requests that edit

\* The variants the product was created with are numbered from one.
ASSUME FormsAssumption ==
    /\ MaxVariants \in Nat \ {0} /\ MaxEdits \in Nat \ {0}
    /\ IsFiniteSet(Skus)
    /\ InitialForm.choices \subseteq OptionValues
    /\ \E D \in SUBSET Skus :
          InitialForm.variants \in [D -> [id     : 1 .. Cardinality(D),
                                         stock  : Nat,
                                         values : SUBSET OptionValues]]
    /\ \A s, t \in DOMAIN InitialForm.variants :
          InitialForm.variants[s].id = InitialForm.variants[t].id => s = t

VARIABLES
    shelf,       \* [live, choices, variants]: variants is SKU -> [id, stock, values]
    lastVariant,   \* the id the sequence gave last
    bought,        \* [Buyers -> [variant, active]], variant 0: no reservation
    editor,        \* [Editors -> what its request does]
    edits          \* the requests begun

formVars == <<shelf, lastVariant, bought, editor, edits>>

NotEditing == [at |-> "idle"]

ProductFormInit ==
    /\ shelf = [live     |-> TRUE,
                choices  |-> InitialForm.choices,
                variants |-> InitialForm.variants]
    /\ lastVariant = Cardinality(DOMAIN InitialForm.variants)
    /\ bought = [b \in Buyers |-> [variant |-> 0, active |-> FALSE]]
    /\ editor = [e \in Editors |-> NotEditing]
    /\ edits = 0

Present(variants) == {variants[s].id : s \in DOMAIN variants}
Held(variants) == {bought[b].variant : b \in Buyers} \cap Present(variants)
HeldUnits(id) == Cardinality({b \in Buyers : bought[b].variant = id /\ bought[b].active})
RowAt(variants, id) == CHOOSE s \in DOMAIN variants : variants[s].id = id
Plus(variants, sku, row) ==
    [s \in DOMAIN variants \cup {sku} |-> IF s = sku THEN row ELSE variants[s]]

-----------------------------------------------------------------------------
\* Checkout locks the row, takes a unit and writes a reservation for it.
Reserve(b, s) ==
    /\ bought[b].variant = 0
    /\ s \in DOMAIN shelf.variants /\ shelf.variants[s].stock > 0
    /\ shelf' = [shelf EXCEPT !.variants[s].stock = @ - 1]
    /\ bought' = [bought EXCEPT ![b] = [variant |-> shelf.variants[s].id, active |-> TRUE]]
    /\ UNCHANGED <<lastVariant, editor, edits>>

\* The reservation ends unpaid: its row stays, its unit goes back.
PutBack(b) ==
    /\ bought[b].active
    /\ bought[b].variant \in Present(shelf.variants)
    /\ shelf' = [shelf EXCEPT !.variants[RowAt(shelf.variants, bought[b].variant)].stock = @ + 1]
    /\ bought' = [bought EXCEPT ![b].active = FALSE]
    /\ UNCHANGED <<lastVariant, editor, edits>>

-----------------------------------------------------------------------------
Begins(e) == editor[e] = NotEditing /\ edits < MaxEdits /\ edits' = edits + 1

\* The page of the form is loaded.
OpenForm(e) ==
    /\ Begins(e) /\ shelf.live
    /\ editor' = [editor EXCEPT ![e] = [at |-> "form", form |-> shelf]]
    /\ UNCHANGED <<shelf, lastVariant, bought>>

\* What an editor may make of it: all as loaded, a variant less, a variant more,
\* other values for a variant, a choice less, a choice more.
WithVariant(form, s) ==
    {[form EXCEPT !.variants = Plus(@, s, [id |-> 0, stock |-> 1, values |-> {c}])]
       : c \in form.choices}
WithValue(form, s) == {[form EXCEPT !.variants[s].values = {c}] : c \in form.choices}
Edits(form) ==
    {form}
    \cup {[form EXCEPT !.variants = Restrict(@, DOMAIN @ \ {s})] : s \in DOMAIN form.variants}
    \cup (UNION {WithVariant(form, s) : s \in Skus \ DOMAIN form.variants})
    \cup (UNION {WithValue(form, s) : s \in DOMAIN form.variants})
    \cup {[form EXCEPT !.choices = @ \ {c}] : c \in form.choices}
    \cup {[form EXCEPT !.choices = @ \cup {c}] : c \in OptionValues \ form.choices}

\* PUT: the rows are read, with the children prefetched.
Submit(e) ==
    /\ editor[e].at = "form" /\ shelf.live
    /\ \E form \in Edits(editor[e].form) :
          editor' = [editor EXCEPT ![e] = [at |-> "submitted", form |-> form, read |-> shelf]]
    /\ UNCHANGED <<shelf, lastVariant, bought, edits>>

\* A payload row is the row whose id it carries, when that was read; otherwise new.
Known(w) == {s \in DOMAIN w.form.variants : w.form.variants[s].id \in Present(w.read.variants)}
New(w) == DOMAIN w.form.variants \ Known(w)
Removed(w) == Present(w.read.variants) \ {w.form.variants[s].id : s \in Known(w)}
ReadRow(w, s) == w.read.variants[RowAt(w.read.variants, w.form.variants[s].id)]

\* A synchronised set: only what the form changes against what was read is written.
Synced(now, read, wanted) == (now \ (read \ wanted)) \cup (wanted \ read)

ChoicesAfter(w) == Synced(shelf.choices, w.read.choices, w.form.choices)
ReadValues(w, s) == IF s \in Known(w) THEN ReadRow(w, s).values ELSE {}
NowValues(w, s) ==
    IF s \in Known(w) /\ w.form.variants[s].id \in Present(shelf.variants)
    THEN shelf.variants[RowAt(shelf.variants, w.form.variants[s].id)].values ELSE {}
Added(w, s) == w.form.variants[s].values \ ReadValues(w, s)

\* full_clean() of each new mapping, against the rows that are there.
OneValueEach(w, s) ==
    \A c \in Added(w, s), d \in (NowValues(w, s) \cap ChoicesAfter(w)) \cup Added(w, s) :
        OptionOf[c] = OptionOf[d] => c = d /\ c \notin NowValues(w, s)

Valid(w) ==
    /\ \A s \in New(w) \cap DOMAIN shelf.variants : shelf.variants[s].id = w.form.variants[s].id
    /\ \A s \in DOMAIN w.form.variants :
          /\ w.form.variants[s].values \subseteq w.form.choices
          /\ OneValueEach(w, s)

\* Inside the transaction: the payload is resolved and cleaned, and the rows to
\* delete are collected, which a reservation forbids (PROTECT).
Check(e) ==
    /\ editor[e].at = "submitted"
    /\ Valid(editor[e])
    /\ Removed(editor[e]) \cap Held(shelf.variants) = {}
    /\ editor' = [editor EXCEPT ![e].at = "saving"]
    /\ UNCHANGED <<shelf, lastVariant, bought, edits>>

Written(w, s, id) ==
    LET form == w.form.variants[s]
        values == Synced(NowValues(w, s), ReadValues(w, s), form.values) \cap ChoicesAfter(w)
    IN IF s \notin Known(w) THEN [id |-> id, stock |-> form.stock, values |-> values]
       ELSE LET now == shelf.variants[RowAt(shelf.variants, form.id)]
            IN [now EXCEPT !.values = values,
                           !.stock = IF form.stock = ReadRow(w, s).stock THEN @ ELSE form.stock]

\* The rows of the product once the writes of w are in, new ones numbered from first.
VariantsAfter(w, first) ==
    LET gone == {s \in DOMAIN shelf.variants : shelf.variants[s].id \in Removed(w)}
        kept == {s \in Known(w) : w.form.variants[s].id \in Present(shelf.variants)}
        others == DOMAIN shelf.variants \ (gone \cup kept)
        nth == CHOOSE o \in [New(w) -> 0 .. Cardinality(New(w)) - 1] : IsInjective(o)
        cascade(row) == [row EXCEPT !.values = @ \cap ChoicesAfter(w)]
    IN [s \in kept \cup New(w) \cup others |->
          IF s \in others THEN cascade(shelf.variants[s]) ELSE Written(w, s, first + nth[s])]

\* Mutation of NothingReservedGoes: the reservations are looked at only when the
\* rows to delete are collected.
GoesAsCollected(gone) == TRUE

\* The foreign key of a reservation, checked at commit.
NothingReservedGoes(gone) == gone \cap Held(shelf.variants) = {}

\* What the database refuses at the latest at commit: a row to update that is
\* gone, a second row of a SKU or value, a mapping onto a value that is gone,
\* and a reservation whose variant would be gone.
Accepted(w) ==
    /\ ~shelf.live => New(w) = {} /\ w.form.choices \subseteq w.read.choices
    /\ \A s \in Known(w) : w.form.variants[s].id \notin Present(shelf.variants)
                           => w.form.variants[s].stock = ReadRow(w, s).stock /\ Added(w, s) = {}
    /\ New(w) \cap DOMAIN shelf.variants = {}
    /\ (w.form.choices \ w.read.choices) \cap shelf.choices = {}
    /\ \A s \in DOMAIN w.form.variants :
          Added(w, s) \subseteq ChoicesAfter(w) \ NowValues(w, s)
    /\ NothingReservedGoes(Removed(w))

Save(e) ==
    LET w == editor[e] IN
    /\ w.at = "saving" /\ Accepted(w)
    /\ lastVariant + Cardinality(New(w)) <= MaxVariants
    /\ shelf' = [shelf EXCEPT !.choices = ChoicesAfter(w),
                                  !.variants = VariantsAfter(w, lastVariant + 1)]
    /\ lastVariant' = lastVariant + Cardinality(New(w))
    /\ editor' = [editor EXCEPT ![e] = NotEditing]
    /\ UNCHANGED <<bought, edits>>

-----------------------------------------------------------------------------
\* PATCH of one variant reads its row, and saves every column of the copy; a row
\* deleted in between is inserted again, without its values.
OpenVariant(e, s) ==
    /\ Begins(e) /\ s \in DOMAIN shelf.variants
    /\ editor' = [editor EXCEPT ![e] = [at |-> "variant", sku |-> s, row |-> shelf.variants[s]]]
    /\ UNCHANGED <<shelf, lastVariant, bought>>

SaveVariant(e) ==
    LET s == editor[e].sku  row == editor[e].row IN
    /\ editor[e].at = "variant"
    /\ \/ /\ row.id \in Present(shelf.variants)
          /\ shelf' = [shelf EXCEPT !.variants[s].stock = row.stock]
       \/ /\ shelf.live /\ s \notin DOMAIN shelf.variants
          /\ shelf' = [shelf EXCEPT !.variants = Plus(@, s, [row EXCEPT !.values = {}])]
    /\ editor' = [editor EXCEPT ![e] = NotEditing]
    /\ UNCHANGED <<lastVariant, bought, edits>>

\* DELETE of a variant, or of the product with all of them (one by one or in bulk).
Collect(e, whole) ==
    /\ Begins(e) /\ shelf.live
    /\ \E gone \in IF whole THEN {Present(shelf.variants)}
                   ELSE {{id} : id \in Present(shelf.variants)} :
          /\ gone \cap Held(shelf.variants) = {}
          /\ editor' = [editor EXCEPT ![e] = [at |-> "deleting", gone |-> gone, whole |-> whole]]
    /\ UNCHANGED <<shelf, lastVariant, bought>>

\* A variant added meanwhile would lose its product, which commit refuses too.
Delete(e) ==
    LET w == editor[e]
        left == {s \in DOMAIN shelf.variants : shelf.variants[s].id \notin w.gone}
    IN
    /\ w.at = "deleting"
    /\ NothingReservedGoes(w.gone)
    /\ w.whole => left = {}
    /\ shelf' = [live     |-> shelf.live /\ ~w.whole,
                   choices  |-> IF w.whole THEN {} ELSE shelf.choices,
                   variants |-> Restrict(shelf.variants, left)]
    /\ editor' = [editor EXCEPT ![e] = NotEditing]
    /\ UNCHANGED <<lastVariant, bought, edits>>

\* A form is closed; a request is refused, fails or dies: nothing is written.
Abandon(e) ==
    /\ editor[e] # NotEditing
    /\ editor' = [editor EXCEPT ![e] = NotEditing]
    /\ UNCHANGED <<shelf, lastVariant, bought, edits>>

ProductFormNext ==
    \/ \E b \in Buyers, s \in Skus : Reserve(b, s)
    \/ \E b \in Buyers : PutBack(b)
    \/ \E e \in Editors : OpenForm(e) \/ Submit(e) \/ Check(e) \/ Save(e) \/ SaveVariant(e)
                          \/ Delete(e) \/ Abandon(e)
    \/ \E e \in Editors, s \in Skus : OpenVariant(e, s)
    \/ \E e \in Editors, whole \in BOOLEAN : Collect(e, whole)

ProductFormSpec == ProductFormInit /\ [][ProductFormNext]_formVars

-----------------------------------------------------------------------------
\* A variant that an order has reserved is there as long as the reservation row
\* is: the form that leaves it out, the bulk delete, and the row saved back all
\* race the checkout, and payment and expiry look the variant up (get() at
\* orders/services.py:1168) to count its units.
OrderedVariantsStay ==
    \A b \in Buyers : bought[b].variant # 0 => bought[b].variant \in Present(shelf.variants)

\* The docstring of InventoryReservation (orders/models.py:835): "Actual stock
\* decrement/release belongs in the order service under an atomic transaction
\* with ProductVariant row locking." Editors who change no number then leave the
\* units of a variant, on the shelf and held, what they were.
ShelfKeepsUnits ==
    \A s \in DOMAIN shelf.variants :
        s \in DOMAIN InitialForm.variants /\ shelf.variants[s].id = InitialForm.variants[s].id
        => shelf.variants[s].stock + HeldUnits(shelf.variants[s].id) = InitialForm.variants[s].stock
=============================================================================
