--------------------------- MODULE MCWebhookOutbox ---------------------------
(* Two subscriptions that both want the event, one of which may date from an *)
(* earlier encryption key, on two API processes.                             *)
EXTENDS WebhookOutbox, TLC

CONSTANTS s1, s2, e1, p1, p2

MCEventType == [e \in Events |-> "source.changed"]
MCEventSource == [e \in Events |-> e]
MCTopics == [s \in Subs |-> {"source.changed"}]
MCScope == [s \in Subs |-> IF s = s1 THEN {} ELSE {e1}]
=============================================================================
