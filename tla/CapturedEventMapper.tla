------------------------- MODULE CapturedEventMapper -------------------------
(***************************************************************************)
(* Phase1CapturedEventMapper (market_data/event_mapper.py): the envelope   *)
(* of a captured event (market_data/models.py), of which the deduplication *)
(* key decides what a recording keeps.                                     *)
(*                                                                         *)
(* One source and one recording session.  A captured event is              *)
(* [kind, generation, sequence, timed, payload]: its kind, its connection  *)
(* generation and callback sequence, whether it carries an event time, and *)
(* the raw values that the mapping reads.                                  *)
(***************************************************************************)
EXTENDS Naturals

PayloadFields ==
    [quote_snapshot          |-> {"instrument"},
     tick_notification       |-> {"instrument", "pointer"},
     connection_notification |-> {"broker_kind", "broker_code"},
     server_time_notification |-> {"time"},
     stock_list_notification |-> {},
     adapter_diagnostic      |-> {"diagnostic", "attempt"}]

\* CapturedMarketDataEvent.__post_init__: the payload is that of the kind.
CapturedEventContract(e) ==
    /\ e.kind \in DOMAIN PayloadFields
    /\ DOMAIN e.payload = PayloadFields[e.kind]
    /\ e.kind = "adapter_diagnostic" => e.payload.attempt > 0

\* validate: a diagnostic has no event time.
Validated(e) ==
    e.kind \in {"adapter_diagnostic", "stock_list_notification"} => ~e.timed

-----------------------------------------------------------------------------
(* build_envelope *)

EventType(e) ==
    [quote_snapshot |-> "quote", tick_notification |-> "tick",
     connection_notification |-> "connection_status", server_time_notification |-> "server_time",
     stock_list_notification |-> "adapter_diagnostic",
     adapter_diagnostic |-> "adapter_diagnostic"][e.kind]

\* ConnectionStatus of the broker's kind and code.
ConnectionStatus(p) ==
    [state |-> CASE p.broker_kind = 3001 -> "connected"
                 [] p.broker_kind = 3002 -> "disconnected"
                 [] p.broker_kind = 3003 -> "stocks_ready"
                 [] OTHER                -> "error",
     ready |-> p.broker_kind = 3003 /\ p.broker_code = 0]

\* AdapterDiagnostic: a stock list is kept as the diagnostic of its first attempt.
Diagnostic(e) ==
    IF e.kind = "stock_list_notification"
    THEN [diagnostic |-> "stock_list_parse_failure", attempt |-> 1]
    ELSE e.payload

DomainPayload(e) ==
    IF EventType(e) = "connection_status" THEN ConnectionStatus(e.payload)
    ELSE IF EventType(e) = "adapter_diagnostic" THEN Diagnostic(e)
    ELSE e.payload

\* build_adapter_diagnostic_dedupe_key
DiagnosticIdentity(e) == <<Diagnostic(e).diagnostic, e.sequence, Diagnostic(e).attempt>>

\* What tells two events of one type and connection apart.
Identity(e) ==
    LET p == e.payload
    IN  CASE EventType(e) = "connection_status" -> <<p.broker_kind, p.broker_code, e.sequence>>
          [] EventType(e) = "server_time"       -> <<p.time, e.sequence>>
          [] EventType(e) = "quote"             -> <<p.instrument, e.sequence>>
          [] EventType(e) = "tick"              -> <<p.instrument, p.pointer, e.sequence>>
          [] OTHER                              -> DiagnosticIdentity(e)

\* MarketDataEnvelope
BuildEnvelope(e, n) ==
    [ingestSequence |-> n, type |-> EventType(e), payload |-> DomainPayload(e),
     generation |-> e.generation, sequence |-> e.sequence, timed |-> e.timed,
     dedupeKey |-> <<EventType(e), e.generation, Identity(e)>>]
=============================================================================
