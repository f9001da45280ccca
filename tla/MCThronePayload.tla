--------------------------- MODULE MCThronePayload ---------------------------
(***************************************************************************)
(* Laws of ThronePayload, evaluated by TLC over payloads that have some of *)
(* the fields, some of them blank.                                         *)
(***************************************************************************)
EXTENDS Integers, Sequences, FiniteSets, TLC
LOCAL INSTANCE ThronePayload

\* Each field is there with one of its values, or is not.
Payload(f) == [k \in {k \in DOMAIN f : f[k] # {}} |-> CHOOSE v \in f[k] : TRUE]
Maybe(values) == {{}} \cup {{v} : v \in values}

AmountFields ==
    {Payload(f) : f \in
        [{"data.amountCents", "data.price"} -> Maybe({{}, {5}})] \cup
        [{"priceCents", "price_usd"} -> Maybe({{6}})]}
NameFields ==
    {Payload(f) : f \in [{"data.senderName", "gifterUsername"} -> Maybe({{}, {"sam"}})]} \cup
    {("data.user" :> [name |-> {n}]) @@ ("sender_name" :> {"sam"}) : n \in {"kim", "sam"}}
OtherFields ==
    {Payload(f) : f \in [id : Maybe({{"e"}}), type : Maybe({{"gift_purchased"}}),
                         created_at : Maybe({{3}}), currency : Maybe({{"EUR"}, {"XXX"}}),
                         itemName : Maybe({{"lamp"}, {"desk setup"}})]}
PrivateFlags == {"data.isPrivate" :> "yes", "hideAmount" :> "saysNo"}
AnonymousFlags == {"data.anonymous" :> "yes", "isAnonymous" :> "saysNo"}
SomePayloads == {a @@ n @@ o : a \in {a \in AmountFields : "priceCents" \notin DOMAIN a},
                               n \in NameFields, o \in OtherFields}

SomeRates == ("USD" :> [num |-> 1, den |-> 1]) @@ ("EUR" :> [num |-> 109, den |-> 100])
LampWish(a, c) == [name |-> {"lamp"}, image |-> {}, amount |-> a, currency |-> c]
SomeWishes == {<< >>, <<LampWish(0, "USD")>>} \cup {<<LampWish(20, c)>> : c \in {"USD", "EUR", "XXX"}}

\* Throne repeats what was not answered: whenever an event is read again, with an
\* id or without, the unique keys find it to be the same send.
ASSUME RepetitionsAreOneSend ==
    \A p \in SomePayloads : SameSend(Parsed("c", p, 1), Parsed("c", p, 2))

\* The amount of a private send and the sender of an anonymous one leave no trace in
\* what is read, the hash of its content included.
ASSUME HiddenIsForgotten ==
    \A o \in OtherFields :
        /\ \A f \in PrivateFlags, n \in NameFields :
                Cardinality({Parsed("c", f @@ o @@ n @@ a, 1) : a \in AmountFields}) = 1
        /\ \A f \in AnonymousFlags :
                Cardinality({Parsed("c", f @@ o @@ n, 1) : n \in NameFields}) = 1

\* A send that is stored as private has no amount, one that is not counted keeps
\* what was paid for it, and no sub is looked up for either kind of hidden sender.
ASSUME StoredAmountsAreKnown ==
    \A p \in SomePayloads, f \in PrivateFlags \cup {"data.isPrivate" :> "no"}, w \in SomeWishes :
        LET send == Parsed("c", f @@ p, 1)
            row == Stored(w, SomeRates, send)
        IN  /\ row.private => row.amount = 0 /\ ~row.mayName
            /\ row.ignored => /\ row.amount = 0
                              /\ \E paid \in row.original : paid.amount = send.amount
            /\ row.mayName => send.gifter # {} /\ ~send.private

\* A private gift that the wish list has a price for is stored with that price and
\* as not private, and is counted; its sender stays unknown.
ASSUME WishesUncoverAmounts ==
    \A o \in OtherFields, f \in PrivateFlags :
        LET send == Parsed("c", f @@ o, 1)
            row == Stored(<<LampWish(20, "EUR")>>, SomeRates, send)
        IN  (send.type = {"gift_purchased"} /\ send.item = {"lamp"} /\ send.currency # "XXX")
                => row = [amount |-> 22, original |-> {[amount |-> 20, currency |-> "EUR"]},
                          private |-> FALSE, ignored |-> FALSE, mayName |-> FALSE]

\* A field that is there and blank hides the same field under its other names.
ASSUME BlankFieldsHideOthers ==
    \A n \in NameFields, a \in AmountFields :
        LET send == Parsed("c", ("data.gifterUsername" :> {}) @@ ("data.amountCents" :> {}) @@ n @@ a, 1)
        IN  send.amount = 0 /\ ("data.user" \notin DOMAIN n => send.gifter = {})

\* Whatever else is said of it, a send whose item has one of the words of a test in
\* its name is taken for a test, and is not recorded.
ASSUME ItemsMakeTests ==
    \A p \in SomePayloads :
        ExplicitTest(p, Parsed("c", p, 1), {}, {"desk setup"}) <=> ItemName(p) = {"desk setup"}

\* Conversion keeps dollars and the order of amounts; a currency of the day's rates
\* or of those in the program can be converted.
ASSUME ConversionKeepsOrder ==
    \A a, b \in 0..40, c \in DOMAIN SomeRates :
        /\ Usd(SomeRates, a, "USD") = {a}
        /\ a <= b => The(Usd(SomeRates, a, c), 0) <= The(Usd(SomeRates, b, c), 0)
        /\ Usd(CurrentRates(SomeRates, "CHF" :> [num |-> 1, den |-> 1], TRUE), a, c)
               = Usd(SomeRates, a, c)

\* A day's feed keeps the dollar and gives euros the rate of the feed, whatever else
\* is in it; one without a usable dollar changes no rate.
ASSUME FeedsKeepDollars ==
    \A usd \in Maybe({[num |-> 109, den |-> 100], [num |-> 0, den |-> 1]}), a \in 0..40 :
        LET feed == Payload([USD |-> usd, CHF |-> {[num |-> 2, den |-> 1]}])
            rates == Refreshed(SomeRates, feed)
        IN  /\ Usd(rates, a, "USD") = {a}
            /\ Usd(rates, a, "EUR") = Usd(SomeRates, a, "EUR")
            /\ "CHF" \in DOMAIN rates <=> usd = {[num |-> 109, den |-> 100]}

=============================================================================
