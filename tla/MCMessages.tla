----------------------------- MODULE MCMessages -----------------------------
EXTENDS Messages, TLC

CONSTANTS a1, a2, tok

Of(kind, address, currency, data) ==
  [kind |-> kind, addressHash |-> address, currencyHash |-> currency, data |-> data, joined |-> {}]

Service(currency) == {[mintingCurrencyHash |-> currency, receiverAddress |-> a2]}

Plain == {Of("input", a1, None, {}), Of("receiver", a2, tok, {}),
          Of("fullnodeFee", a1, Native, {}), Of("networkFee", a2, Native, {})}

Input == {{}, {Of("input", a1, tok, {})}}

Generating == {[Of("tokenGeneration", a1, Native, {}) EXCEPT !.joined = parts] : parts \in SUBSET Parts}

MintingFees == {Of("tokenMinting", a1, Native, {}), Of("tokenMinting", a1, Native, Service(tok)),
                Of("tokenMinting", a1, tok, Service(Native))}

Transactions ==
  [type : {"Transfer"}, confirmed : BOOLEAN, bases : SUBSET Plain]
  \cup [type : {"TokenGeneration"}, confirmed : BOOLEAN,
        bases : {b \cup g : b \in Input, g \in SUBSET Generating}]
  \cup [type : {"TokenMinting"}, confirmed : BOOLEAN,
        bases : {b \cup m : b \in Input, m \in SUBSET MintingFees}]

UpToTwo == {<<>>} \cup {<<t>> : t \in Transactions} \cup {<<t, u>> : t, u \in Transactions}
=============================================================================
