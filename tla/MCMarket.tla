---- MODULE MCMarket ----
\* Peers that trade and log out, that send something else than orders, and
\* that begin with an order.  The third finds the slots taken, or reuses a
\* descriptor.
EXTENDS Market

Trades == <<"Logon", "Order", "Order", "Logout">>
Mixed == <<"Logon", "Bad", "Order">>
Early == <<"Order", "Logon">>
MCScripts == {<<Trades, Mixed, Early>>, <<Early, Trades, Mixed>>}
====
