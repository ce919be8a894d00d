---------------------------- MODULE FileTransfer ----------------------------
(***************************************************************************)
(* What the transfer of a file promises, whatever requests, retries and    *)
(* sessions it takes: parts come through one at a time and once, those of  *)
(* a download in order; then there is one result, and it is good only if   *)
(* every part is through or the user cancelled a download.                 *)
(***************************************************************************)
EXTENDS Integers, Sequences

CONSTANTS
    Parts,
    Empty                   \* those of a download that carry no data

VARIABLES
    kind,                   \* download or upload
    cancelled,              \* the user cancelled
    through,                \* the parts that came through, in this order
    result                  \* none, good or bad

Content == IF kind = "download" THEN Parts \ Empty ELSE Parts

Through == {through[i] : i \in DOMAIN through}

Init ==
    /\ kind \in {"download", "upload"}
    /\ cancelled = FALSE /\ through = <<>> /\ result = "none"

Cancel == ~cancelled /\ cancelled' = TRUE /\ UNCHANGED <<kind, through, result>>

Pass(p) ==
    /\ result = "none"
    /\ p \notin Through
    /\ kind = "download" => \A q \in Content : q < p => q \in Through
    /\ through' = Append(through, p)
    /\ UNCHANGED <<kind, cancelled, result>>

Finish ==
    /\ result = "none"
    /\ \/ result' = "bad"
       \/ /\ Through = Content \/ (kind = "download" /\ cancelled)
          /\ result' = "good"
    /\ UNCHANGED <<kind, cancelled, through>>

Next == Cancel \/ Finish \/ \E p \in Content : Pass(p)

Spec == Init /\ [][Next]_<<kind, cancelled, through, result>>

=============================================================================
