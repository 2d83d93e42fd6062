--------------------------- MODULE MCTranslateMany ---------------------------
(* Server for TLC: every list of up to three texts in two languages, with and     *)
(* without blank ones, one that is empty, too long or too large, and lists whose  *)
(* languages are given, regional or malformed.                                    *)
EXTENDS Server, SequencesExt

CONSTANT c

CallsDef == {c}
MaxItemsDef == 3
MaxBytesDef == 6

Texts == {"word", "kana", "mora", " "}
SizeDef(text) == IF text = " " THEN 0 ELSE IF text = "book" THEN 7 ELSE 1
DetectDef(text) == IF text \in {"kana", "mora"} THEN "ja" ELSE "en"
PrimaryDef(language) ==
    CASE language \in {"zh", "zh-CN"} -> "zh"
      [] language \in {"ja", "ja_JP"} -> "ja"
      [] OTHER -> "invalid"

Asked(texts, from, to) == [texts |-> texts, source |-> from, target |-> to]

ListsDef ==
    {Asked(texts, "auto", "zh-CN") : texts \in BoundedSeq(Texts, 3)} \cup
    {Asked(<<"kana", "word">>, "ja_JP", "zh"), Asked(<<"word", "kana">>, "?", "zh"),
     Asked(<<"word">>, "", "?"), Asked(<<"word", "book">>, "auto", "zh"),
     Asked(<<"word", "word", "word", "word">>, "auto", "zh")}
SinglesDef == {Asked(<<"word">>, "auto", "zh"), Asked(<<" ">>, "auto", "zh")}

\* Sorted by the source language first, as the batch key is.
InputsDef == [text : Texts \ {" "}, source : {"en", "ja"}, target : {"zh"}]
KeyDef == [input \in InputsDef |-> IF input.source = "en" THEN 1 ELSE 2]
TranslationDef == [input \in InputsDef |-> input.source \o " " \o input.text]
ErrorsDef == {"QueueFull", "ShuttingDown", "WorkerStopped", "Timeout", "InvalidInput"}

=============================================================================
