-------------------------- MODULE MCPixivAccounts --------------------------
(* Two accounts, one with a subscription and flagged, one without. *)
EXTENDS PixivAccounts, TLC

CONSTANTS plain, paid

MCPool       == <<plain, paid>>
MCUnpinned   == {DefaultStrategy}
MCStrategies == {[premium |-> FALSE, pin |-> NoAccount],
                 [premium |-> TRUE, pin |-> paid]}

=============================================================================
