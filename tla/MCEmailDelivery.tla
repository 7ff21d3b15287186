-------------------------- MODULE MCEmailDelivery ---------------------------
(* Small instances of EmailDelivery. *)
EXTENDS EmailDelivery

CONSTANTS reminder, receipt, letter, note, first, second

OneReminder == {reminder}
OneReceipt == {receipt}
Reminders == {reminder, receipt}
OneLetter == {letter}
Letters == {letter, note}
OneSender == {first}
TwoSenders == {first, second}
Nothing == {}
=============================================================================
