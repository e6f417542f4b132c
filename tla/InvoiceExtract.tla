--------------------------- MODULE InvoiceExtract ---------------------------
(***************************************************************************)
(* What an invoice says: mail_agent/invoice_extract.py reads the text layer  *)
(* of a PDF, has required fields it cannot use read by OCR, merges the two   *)
(* readings field by field, and calls the result confirmed or leaves it for  *)
(* a review.                                                                *)
(*                                                                          *)
(* A reading is what the labels of a text point at: dates, numbers, amounts, *)
(* the supplier.  Confidences are percentages.  The category and the due     *)
(* date, which have no part in the status, are left out.  An extraction is a *)
(* function of the paper: the state is one paper and what became of it.      *)
(***************************************************************************)
EXTENDS Integers, FiniteSets, FiniteSetsExt, Sequences, SequencesExt

CONSTANTS
    Layers,         \* readings of a text layer
    Pages,          \* readings of a page by OCR, and whether it is legible
    MaxPages,       \* ocr_max_pages
    LongestPaper    \* bound: pages of a paper

VARIABLES paper, extract

extractVars == <<paper, extract>>

Fields == {"invoice_date", "invoice_number", "supplier", "gross_amount", "net_amount", "tax_amount", "currency"}
Required == {"invoice_date", "invoice_number", "gross_amount", "supplier"}

\* A value, <<>> if there is none, and whether only the sender of the mail is
\* behind it.
Field(value, confidence) == [value |-> value, confidence |-> confidence, mail |-> FALSE]
Empty == Field(<<>>, 0)

-----------------------------------------------------------------------------
(* Dates, numbers, the supplier *)

DateScore(d) == (IF d.near THEN 88 ELSE 96) - (IF d.odd THEN 25 ELSE 0)

\* Several labelled dates that are about equally good are none.
InvoiceDate(reading) ==
    LET accepted == {d \in reading.dates : d.label = "invoice-date"}
        bare == {d \in reading.dates : d.label = "none"}
        best == CHOOSE d \in accepted : \A e \in accepted : DateScore(d) >= DateScore(e)
        high == {d.value : d \in {e \in accepted : DateScore(e) >= DateScore(best) - 5 /\ DateScore(e) >= 75}}
    IN  CASE accepted = {} /\ bare = {} -> Empty
          [] accepted = {} /\ bare # {} -> Field((CHOOSE d \in bare : TRUE).value, 35)
          [] OTHER -> IF Cardinality(high) > 1 THEN Field(<<>>, 30) ELSE Field(best.value, DateScore(best))

\* The file name only supports a number that has a label.
InvoiceNumber(reading, filename) ==
    LET accepted == {n \in reading.numbers : n.valid}
        values == {n.value : n \in accepted}
        number == CHOOSE n \in accepted : TRUE
    IN  CASE values = {} -> Empty
          [] Cardinality(values) > 1 -> Field(<<>>, 35)
          [] OTHER -> Field(number.value, IF number.value = filename THEN 97 ELSE IF number.near THEN 88 ELSE 94)

\* A labelled supplier, a company in the heading, or the sender of the mail.
Supplier(reading, sender) ==
    CASE reading.supplier.label = "label" -> Field(reading.supplier.value, 94)
      [] reading.supplier.label = "heading" -> Field(reading.supplier.value, 92)
      [] OTHER -> IF sender = <<>> THEN Empty ELSE [value |-> sender, confidence |-> 68, mail |-> TRUE]

-----------------------------------------------------------------------------
(* Amounts *)

RoleConfidence(role) ==
    CASE role = "amount-due" -> 98
      [] role \in {"gross-total", "net-total", "tax-amount"} -> 95
      [] role = "credit" -> 92
      [] role = "subtotal" -> 84
      [] OTHER -> 0

Currencies(reading) == {a.currency : a \in reading.money} \ {""}

\* An amount without a currency has that of the document, if there is only one.
Priced(reading) ==
    LET only == IF Cardinality(Currencies(reading)) = 1 THEN CHOOSE c \in Currencies(reading) : TRUE ELSE ""
    IN  {[a EXCEPT !.currency = IF @ = "" THEN only ELSE @] : a \in reading.money}

\* Discounts, advance payments and unit prices are never totals; nor is a
\* credit that is not negative.
Counts(a) == RoleConfidence(a.role) > 0 /\ ~(a.role = "credit" /\ a.value >= 0)

Nothing == [found |-> {}, conflict |-> FALSE]

\* The first role of the list that has an amount decides, if it has only one.
SelectRole(amounts, roles) ==
    LET present == {i \in DOMAIN roles : \E a \in amounts : a.role = roles[i]}
        same == {a \in amounts : a.role = roles[Min(present)]}
    IN  IF present = {} THEN Nothing
        ELSE IF Cardinality({<<a.value, a.currency>> : a \in same}) > 1 THEN [found |-> {}, conflict |-> TRUE]
        ELSE [found |-> {CHOOSE a \in same : TRUE}, conflict |-> FALSE]

Abs(n) == IF n < 0 THEN -n ELSE n

AddsUp(gross, net, tax) == Abs(gross - net - tax) <= 2

\* A subtotal counts as the net amount only if it adds up with the two others.
SelectSubtotal(amounts, gross, tax) ==
    LET subtotals == {a \in amounts : a.role = "subtotal"}
        s == CHOOSE a \in subtotals : TRUE
        g == CHOOSE a \in gross : TRUE
        t == CHOOSE a \in tax : TRUE
    IN  CASE subtotals = {} \/ gross = {} \/ tax = {} -> [found |-> {}, reason |-> {}]
          [] OTHER -> IF Cardinality({<<a.value, a.currency>> : a \in subtotals}) > 1
                      THEN [found |-> {}, reason |-> {"net_amount-conflict"}]
                      ELSE IF /\ Cardinality({g.currency, s.currency, t.currency} \ {""}) <= 1
                              /\ AddsUp(g.value, s.value, t.value)
                      THEN [found |-> {s}, reason |-> {}]
                      ELSE [found |-> {}, reason |-> {"arithmetic-mismatch"}]

OppositeSigns(a, b) == a # 0 /\ b # 0 /\ (a < 0) # (b < 0)

Reasons(gross, net, tax) ==
    {r \in {"tax-exceeds-gross", "sign-mismatch", "arithmetic-mismatch"} :
        \E g \in gross :
            CASE r = "tax-exceeds-gross" -> \E t \in tax : Abs(t.value) > Abs(g.value) + 2
              [] r = "sign-mismatch" -> \E a \in net \cup tax : OppositeSigns(g.value, a.value)
              [] OTHER -> \E n \in net, t \in tax : ~AddsUp(g.value, n.value, t.value)}

\* The currency of the selected amounts, or of the document.
Currency(selected, reading) ==
    LET of == {a.currency : a \in selected} IN
    CASE Cardinality(of \ {""}) > 1 -> [field |-> Empty, reason |-> {"currency-conflict"}]
      [] "" \in of /\ Cardinality(of \ {""}) <= 1 -> [field |-> Empty, reason |-> {"currency-missing"}]
      [] of # {} /\ "" \notin of /\ Cardinality(of) = 1 -> [field |-> Field(<<CHOOSE c \in of : TRUE>>, 95), reason |-> {}]
      [] OTHER -> CASE Cardinality(Currencies(reading)) = 1 ->
                          [field |-> Field(<<CHOOSE c \in Currencies(reading) : TRUE>>, 75), reason |-> {}]
                    [] Cardinality(Currencies(reading)) > 1 -> [field |-> Empty, reason |-> {"currency-conflict"}]
                    [] OTHER -> [field |-> Field(<<"EUR">>, 50), reason |-> {}]

Amount(found) ==
    IF found = {} THEN Empty
    ELSE LET a == CHOOSE b \in found : TRUE
         IN  Field(<<a.value>>, RoleConfidence(a.role) - (IF a.near THEN 8 ELSE 0))

Conflicting(selection, name) == IF selection.conflict THEN {name} ELSE {}

-----------------------------------------------------------------------------
(* One reading *)

\* Fields, the reasons for a review, and the status as of now.
Finalize(fields, reasons) ==
    [fields |-> fields, reasons |-> reasons,
     status |-> IF /\ fields["invoice_date"].value # <<>> /\ fields["invoice_date"].confidence >= 85
                   /\ fields["invoice_number"].confidence >= 75
                   /\ fields["gross_amount"].confidence >= 80
                   /\ fields["supplier"].confidence >= 55
                   /\ reasons = {}
                THEN "confirmed" ELSE "review"]

ParseInvoiceText(reading, filename, sender) ==
    LET amounts == {a \in Priced(reading) : Counts(a)}
        gross == SelectRole(amounts, <<"amount-due", "gross-total", "credit">>)
        total == SelectRole(amounts, <<"net-total">>)
        tax == SelectRole(amounts, <<"tax-amount">>)
        subtotal == SelectSubtotal(amounts, gross.found, tax.found)
        net == IF total.found # {} THEN total.found ELSE subtotal.found
        currency == Currency(gross.found \cup net \cup tax.found, reading)
        fields == [f \in Fields |->
            CASE f = "invoice_date" -> InvoiceDate(reading)
              [] f = "invoice_number" -> InvoiceNumber(reading, filename)
              [] f = "supplier" -> Supplier(reading, sender)
              [] f = "gross_amount" -> IF gross.conflict THEN Field(<<>>, 30) ELSE Amount(gross.found)
              [] f = "net_amount" -> Amount(net)
              [] f = "tax_amount" -> IF tax.conflict THEN Field(<<>>, 30) ELSE Amount(tax.found)
              [] f = "currency" -> currency.field]
    IN  Finalize(fields,
            Conflicting(gross, "gross_amount-conflict") \cup Conflicting(total, "net_amount-conflict")
            \cup Conflicting(tax, "tax_amount-conflict") \cup (IF total.found = {} THEN subtotal.reason ELSE {})
            \cup {"credit-sign-ambiguous" : a \in {b \in Priced(reading) : b.role = "credit" /\ b.value >= 0}}
            \cup currency.reason \cup Reasons(gross.found, net, tax.found))

-----------------------------------------------------------------------------
(* Two readings *)

Usability(f) ==
    CASE f = "invoice_date" -> 85 [] f = "invoice_number" -> 75 [] f = "supplier" -> 55 [] f = "gross_amount" -> 80
      [] f \in {"net_amount", "tax_amount"} -> 70 [] f = "currency" -> 65

UsableField(f, field) == ~field.mail /\ field.value # <<>> /\ field.confidence >= Usability(f)

Credible(f, field) ==
    ~field.mail /\ field.value # <<>> /\ field.confidence >= (IF Usability(f) < 75 THEN Usability(f) ELSE 75)

RequiredOcrFields(m) ==
    {f \in Required : ~UsableField(f, m.fields[f])}
    \cup (IF m.reasons # {} THEN {"gross_amount"} ELSE {})

\* The first pages and the last one.
SelectOcrPages(count) ==
    IF count <= MaxPages THEN 1..count ELSE IF MaxPages = 1 THEN {1} ELSE 1..(MaxPages - 1) \cup {count}

\* Whatever goes wrong with one page leaves no text at all.
ExtractOcrText(pages) ==
    LET selected == {pages[i] : i \in SelectOcrPages(Len(pages))}
        labelled == {i \in SelectOcrPages(Len(pages)) : pages[i].supplier.label = "label"}
    IN  IF pages = <<>> \/ \E p \in selected : ~p.legible THEN {}
        ELSE {[dates |-> UNION {p.dates : p \in selected}, numbers |-> UNION {p.numbers : p \in selected},
               money |-> UNION {p.money : p \in selected},
               supplier |-> pages[IF labelled = {} THEN 1 ELSE Min(labelled)].supplier]}

Contradict(f, left, right) ==
    left.value # <<>> /\ right.value # <<>> /\ left.value # right.value /\ Credible(f, left) /\ Credible(f, right)

\* _choose: a usable value of the text layer stays, one that is missing is
\* taken from OCR, a contradiction leaves the field empty.
Choose(native, ocr) ==
    LET clash == {f \in Fields : Contradict(f, native.fields[f], ocr.fields[f])}
        fused(f) ==
            LET left == native.fields[f]
                right == ocr.fields[f]
            IN  IF f \in clash THEN Empty
                ELSE IF ~UsableField(f, left) /\ UsableField(f, right) THEN right
                ELSE IF left.value # <<>> /\ left.value = right.value THEN left
                ELSE IF UsableField(f, left) THEN left
                ELSE IF right.value # <<>> /\ right.confidence > left.confidence THEN right
                ELSE left
    IN  Finalize([f \in Fields |-> fused(f)], native.reasons \cup ocr.reasons \cup clash)

\* The weighted confidence reaches metadata_min_confidence.
ConfidentEnough(m) ==
    LET c(f) == m.fields[f].confidence
    IN  30 * c("invoice_date") + 20 * c("invoice_number") + 30 * c("gross_amount") + 20 * c("supplier") >= 8200

\* InvoiceExtractor.extract: the reason for a failed or switched off OCR is
\* added after the status of the text layer was decided.
Extracted(p) ==
    LET native == ParseInvoiceText(p.native, p.filename, p.sender)
        wanted == RequiredOcrFields(native) # {}
        text == IF wanted /\ p.ocr THEN ExtractOcrText(p.pages) ELSE {}
        ocr == {ParseInvoiceText(r, p.filename, p.sender) : r \in text}
        selected == IF ocr = {} THEN IF wanted THEN [native EXCEPT !.reasons = @ \cup {"ocr"}] ELSE native
                    ELSE Choose(native, CHOOSE m \in ocr : TRUE)
    IN  [native |-> native, ocr |-> ocr,
         selected |-> IF UsableField("invoice_date", selected.fields["invoice_date"]) /\ ConfidentEnough(selected)
                      THEN selected ELSE [selected EXCEPT !.status = "review"]]

Init ==
    /\ paper \in [native : Layers, pages : BoundedSeq(Pages, LongestPaper), ocr : BOOLEAN,
                  filename : {<<"none">>}, sender : {<<>>, <<"shop">>}]
    /\ extract = <<>>

Extract ==
    /\ extract = <<>> /\ extract' = <<Extracted(paper)>>
    /\ paper' = paper

Next == Extract

Spec == Init /\ [][Next]_extractVars

-----------------------------------------------------------------------------
(* Properties *)

Confirmed == extract # <<>> /\ extract[1].selected.status = "confirmed"

Selected(f) == extract[1].selected.fields[f]

\* Nothing is confirmed that two readings tell differently, for any field, and
\* OCR takes the place of no value of the text layer that was good enough
\* (_choose).
DisagreementIsReviewed ==
    Confirmed => \A m \in extract[1].ocr, f \in Fields :
        LET left == extract[1].native.fields[f] IN
        /\ ~Contradict(f, left, m.fields[f])
        /\ UsableField(f, left) => Selected(f) = left

\* The three amounts of a confirmed invoice add up if one reading has them all
\* (_extract_amounts).
OneReadingAddsUp ==
    Confirmed => \A m \in extract[1].ocr \cup {extract[1].native} :
        LET a == [f \in {"gross_amount", "net_amount", "tax_amount"} |-> m.fields[f].value] IN
        (\A f \in DOMAIN a : a[f] # <<>> /\ Selected(f).value = a[f])
            => Abs(a["gross_amount"][1] - a["net_amount"][1] - a["tax_amount"][1]) <= 2

\* docs/INVOICE_OCR_REGISTER.md: the three amounts of an invoice differ by two
\* cents at most, or it is left for a review.  The code does not keep it for amounts
\* of different readings, which it never adds up.
ConfirmedAddsUp ==
    Confirmed /\ (\A f \in {"gross_amount", "net_amount", "tax_amount"} : Selected(f).value # <<>>)
        => Abs(Selected("gross_amount").value[1] - Selected("net_amount").value[1] - Selected("tax_amount").value[1]) <= 2
=============================================================================
