---------------------------- MODULE MCQuoteAdapter ----------------------------
\* One symbol with its quotes and ticks, subscribed at any time after the login.
EXTENDS QuoteAdapter

CONSTANT s1

Quotes == {<<"quotes", s1>>}
Ticks == {<<"ticks", s1>>}

MCScript ==
    <<{Command("login", {}), Command("enter_monitor", {})},
      {Command("enter_monitor", {}), Command("login", {})},
      {Command("subscribe", Ticks)},
      {Command("subscribe", Quotes), Command("unsubscribe", Ticks)}>>
=============================================================================
