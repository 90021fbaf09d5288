---------------------------- MODULE NumberFields ----------------------------
(***************************************************************************)
(* The validators the router puts before the handlers: what each of them   *)
(* makes of the "number" of a body.  A validator refuses the request or    *)
(* hands the handler the number, rewritten to a full JID or as it came.    *)
(***************************************************************************)
EXTENDS Naturals

\* "other" is a content type that is neither JSON nor a form; the handlers
\* parse the body as JSON all the same
Contents == {"json", "form", "other"}

(***************************************************************************)
(* The number of the body: missing, "", digits a JID can be made of, a     *)
(* full JID, a text no JID can be made of, an array of numbers, an empty   *)
(* array, an array with a text no JID can be made of, or another type.     *)
(***************************************************************************)
Shapes == {"missing", "empty", "digits", "jid", "bad", "list", "no items",
           "bad list", "not text"}

\* the value of a form is a text
Texts == {"missing", "empty", "digits", "jid", "bad"}

\* what a validator hands on: "jid" and "jids" are canonical
Fields == {"refused", "missing", "digits", "jid", "jids", "bad", "list", "no items",
           "bad list", "not text", "empty"}

\* validateFormFields: a form is checked and never rewritten
FormField(number) == IF number \in {"missing", "empty", "bad"} THEN "refused" ELSE number

\* utils.CreateJID on one text
Normalized(number) == IF number = "digits" THEN "jid" ELSE number

(***************************************************************************)
(* ValidateJIDFields: a value that is not a text reads as "" and is        *)
(* refused with it.                                                        *)
(***************************************************************************)
JIDFields(content, number) ==
  CASE content = "other" -> number
    [] content = "form"  -> FormField(number)
    [] OTHER -> IF number \in {"missing", "digits", "jid"} THEN Normalized(number) ELSE "refused"

(***************************************************************************)
(* ValidateNumberField: one text or an array of texts.                     *)
(***************************************************************************)
NumberField(content, number) ==
  CASE content = "other" -> number
    [] content = "form"  -> FormField(number)
    [] OTHER -> IF number = "list" THEN "jids"
                ELSE IF number \in {"missing", "digits", "jid"} THEN Normalized(number)
                ELSE "refused"

(***************************************************************************)
(* ValidateNumberFieldWithFormatJid: with formatJid = false the texts pass *)
(* as they came.  A form is not looked at.                                 *)
(***************************************************************************)
NumberFieldWithFormatJid(content, number, formatJid) ==
  CASE content # "json" -> number
    [] number \in {"empty", "no items", "not text"} -> "refused"
    [] ~formatJid -> number
    [] number \in {"bad", "bad list"} -> "refused"
    [] OTHER -> IF number = "list" THEN "jids" ELSE Normalized(number)

(***************************************************************************)
(* ValidateMultipleNumbers: only the texts of an array are looked at.      *)
(***************************************************************************)
MultipleNumbers(content, number) ==
  CASE content # "json" -> number
    [] number = "bad list" -> "refused"
    [] OTHER -> IF number = "list" THEN "jids" ELSE number

(***************************************************************************)
(* ValidateContactFields: the number, when it is a text and not "".  The   *)
(* phone of the card is checked too; that check is part of the body's.     *)
(***************************************************************************)
ContactFields(content, number) ==
  CASE content # "json" -> number
    [] number = "bad" -> "refused"
    [] OTHER -> Normalized(number)

Validated(form, content, number, formatJid) ==
  CASE form = "ValidateJIDFields" -> JIDFields(content, number)
    [] form = "ValidateNumberField" -> NumberField(content, number)
    [] form = "ValidateNumberFieldWithFormatJid" ->
         NumberFieldWithFormatJid(content, number, formatJid)
    [] form = "ValidateMultipleNumbers" -> MultipleNumbers(content, number)
    [] OTHER -> ContactFields(content, number)

(***************************************************************************)
(* What the handler can read into its struct.  It parses the body as JSON  *)
(* whatever the content type says, or takes the values of a form; reads is *)
(* the type of the field: one text, an array of texts, or a form's value.  *)
(***************************************************************************)
Readable(reads, form, number) ==
  CASE reads = "form"  -> form
    [] reads = "texts" -> ~form /\ number \in {"missing", "no items", "list", "jids", "bad list"}
    [] OTHER           -> ~form /\ number \in {"missing", "empty", "digits", "jid", "bad"}

\* what the handlers take for no number at all: "" and an array without items
NoNumber == {"missing", "empty", "no items"}

\* what no JID can be made of
NotJids == {"bad", "bad list", "not text"}
=============================================================================
