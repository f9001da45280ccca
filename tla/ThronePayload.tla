---------------------------- MODULE ThronePayload ----------------------------
(***************************************************************************)
(* What the webhook process reads in an event of Throne and stores as a    *)
(* send (throne/payloads.py; services/send_service.py: record_throne_send; *)
(* throne/scraper.py: match_wishlist_item_price; utils/fx.py).             *)
(*                                                                         *)
(* Throne spells a field in many ways.  A payload is a function from the   *)
(* spellings that it has (a null is none) to values: an optional text,     *)
(* time or number is a set of at most one, empty where it is blank or      *)
(* cannot be read; a nested object is such a function, and so is the       *)
(* object "data", whose fields are written "data.x" here.  Money is in     *)
(* half cents as Throne sends it and in cents after rounding.              *)
(***************************************************************************)
EXTENDS Integers, Sequences, FiniteSets, SequencesExt

Values(object, names) ==
    LET there == SelectSeq(names, LAMBDA n : n \in DOMAIN object)
    IN  [i \in DOMAIN there |-> object[there[i]]]

\* _first, _first_str: the first that is there counts, also where it is blank.
First(values) == IF values = << >> THEN {} ELSE Head(values)
The(option, default) == IF option = {} THEN default ELSE CHOOSE x \in option : TRUE

\* _truthy: a flag is "yes" for true, "no" for false, and a text is true whatever
\* it says.
Truthy(values) == \E i \in DOMAIN values : values[i] # "no"
\* _as_bool reads the words for true and false.
AsBool(values) == \E i \in DOMAIN values : values[i] \in {"yes", "saysYes"}

\* The object that describes the sender or the item: the first under one of its
\* names, in the data and, if there is none or nothing in it, around them.  (What
\* is no object under such a name counts for none.)
Object(p, inside, around) ==
    LET within == Values(p, inside)
        outside == Values(p, around)
    IN  IF within # << >> /\ DOMAIN Head(within) # {} THEN Head(within)
        ELSE IF outside # << >> THEN Head(outside) ELSE << >>

Gifter(p) == Object(p, <<"data.gifter", "data.sender", "data.user">>, <<"gifter", "sender", "user">>)
Item(p) == Object(p, <<"data.gift", "data.item", "data.product", "data.wishlistItem">>,
                  <<"gift", "item", "product", "wishlistItem">>)

EventId(p) == First(Values(p, <<"id", "eventId", "event_id">>))
EventType(p) == First(Values(p, <<"type", "eventType", "event_type">>))
OrderId(p) == First(Values(p, <<"data.orderId", "data.order_id", "orderId", "order_id">>))

PurchasedAt(p) ==
    First(Values(p, <<"data.purchasedAt", "data.purchased_at", "data.createdAt", "data.created_at",
                      "data.timestamp", "purchasedAt", "purchased_at", "createdAt", "created_at",
                      "timestamp">>))

IsAnonymous(p) ==
    Truthy(Values(Gifter(p), <<"isAnonymous">>)
           \o Values(p, <<"data.isAnonymous", "data.is_anonymous", "data.anonymous",
                          "isAnonymous", "is_anonymous", "anonymous">>))

GifterUsername(p) ==
    IF IsAnonymous(p) THEN {"Anonymous"}
    ELSE First(Values(Gifter(p), <<"username", "name">>)
               \o Values(p, <<"data.gifterUsername", "data.gifter_username", "data.senderUsername",
                              "data.sender_username", "data.senderName", "data.sender_name",
                              "gifterUsername", "gifter_username", "senderUsername",
                              "sender_username", "senderName", "sender_name">>))

ItemName(p) ==
    First(Values(Item(p), <<"name", "title">>)
          \o Values(p, <<"data.itemName", "data.item_name", "itemName", "item_name",
                         "productName", "product_name", "giftName", "gift_name">>))

\* Only what is a web address.
ItemImage(p) ==
    First(Values(Item(p), <<"imageUrl", "image_url", "image">>)
          \o Values(p, <<"data.itemImageUrl", "data.item_image_url", "data.itemThumbnailUrl",
                         "data.item_thumbnail_url", "itemImageUrl", "item_image_url",
                         "itemThumbnailUrl", "item_thumbnail_url">>)) \ {"path"}

Currency(p) ==
    The(First(Values(p, <<"data.currency", "currency">>) \o Values(Item(p), <<"currency">>)), "USD")

\* _to_int_cents: ROUND_HALF_UP, away from zero.
Rounded(halves) == IF halves >= 0 THEN (halves + 1) \div 2 ELSE -((1 - halves) \div 2)
Cents(option) == IF option = {} THEN 0 ELSE Rounded(The(option, 0))

\* Where a field with "cents" is there, a price is not looked for; and a price is
\* taken for cents as well.
AmountSource(p) ==
    LET cents == Values(p, <<"data.amountCents", "data.amount_cents", "amountCents", "amount_cents",
                             "priceCents", "price_cents">>)
                 \o Values(Item(p), <<"amountCents", "amount_cents">>)
        price == Values(p, <<"data.price", "price", "data.amount", "amount">>)
                 \o Values(Item(p), <<"amount">>)
                 \o Values(p, <<"data.amountUsd", "data.amount_usd", "data.priceUsd", "data.price_usd",
                                "amountUsd", "amount_usd", "priceUsd", "price_usd">>)
    IN  IF cents # << >> THEN First(cents) ELSE First(price)

IsPrivate(p) ==
    Truthy(Values(p, <<"data.isPrivate", "data.is_private", "data.amountHidden", "data.hideAmount",
                       "isPrivate", "is_private", "amountHidden", "hideAmount">>))

AmountCents(p) == IF IsPrivate(p) THEN 0 ELSE Cents(AmountSource(p))

\* build_fallback_hash, taken to tell different contents apart.  A time that is
\* missing is left out, for the same event comes again at another time.
FallbackHash(creator, p) ==
    [creator |-> creator, order |-> OrderId(p), at |-> PurchasedAt(p), gifter |-> GifterUsername(p),
     item |-> ItemName(p), amount |-> AmountCents(p), currency |-> Currency(p)]

Parsed(creator, p, now) ==
    [event |-> EventId(p), type |-> EventType(p), order |-> OrderId(p), gifter |-> GifterUsername(p),
     item |-> ItemName(p), image |-> ItemImage(p), amount |-> AmountCents(p), currency |-> Currency(p),
     private |-> IsPrivate(p), at |-> The(PurchasedAt(p), now), hash |-> FallbackHash(creator, p)]

\* is_supported_event_type: an event without a type is a send.
Supported(send) ==
    send.type \subseteq {"gift_purchased", "contribution_purchased", "gift_crowdfunded", "item_purchased"}

\* is_known_test_sender: the configured names, or marie_123 where there are none.
KnownTester(send, testers) ==
    send.gifter \cap (IF testers = {} THEN {"marie_123"} ELSE testers) # {}

\* is_explicit_test_webhook_payload.  testing: the texts with "test" in them;
\* setting: those with "test", "webhook" or "setup", of which an item or an order
\* may not have any, or its send is taken for a test.
ExplicitTest(p, send, testing, setting) ==
    \/ First(Values(p, <<"type", "eventType", "event_type">>)) \cap testing # {}
    \/ First(Values(p, <<"event", "data.event">>)) \cap testing # {}
    \/ First(Values(p, <<"kind", "payloadType", "payload_type">>)) \cap testing # {}
    \/ AsBool(Values(p, <<"test", "isTest", "is_test", "data.test", "data.isTest", "data.is_test">>))
    \/ (send.item \cup send.order) \cap setting # {}
    \/ send.item = {} /\ First(Values(p, <<"data.itemName", "itemName">>)) \cap setting # {}
    \/ send.order = {} /\ First(Values(p, <<"data.orderId", "orderId">>)) \cap setting # {}

-----------------------------------------------------------------------------
\* convert_cents_to_usd: a set of at most one; currencies without a rate and
\* negative amounts have none.  rates: [num, den] for each currency.
Usd(rates, cents, currency) ==
    IF cents < 0 \/ currency \notin DOMAIN rates THEN {}
    ELSE {(2 * cents * rates[currency].num + rates[currency].den) \div (2 * rates[currency].den)}

\* current_rates: the rates of the day, if they are not too old, over those that
\* the program comes with.
CurrentRates(bundled, live, fresh) ==
    IF ~fresh THEN bundled
    ELSE [c \in DOMAIN bundled \cup DOMAIN live |-> IF c \in DOMAIN live THEN live[c] ELSE bundled[c]]

\* parse_ecb_rates: the feed has units of each currency for a euro; {} is an
\* unusable feed.  refresh_rates then keeps what it had.
EcbRates(feed) ==
    LET known == {c \in DOMAIN feed : feed[c].num > 0 /\ feed[c].den > 0}
        usd == feed["USD"]
        rate == [c \in known \cup {"EUR"} |->
                    IF c \in known
                    THEN [num |-> usd.num * feed[c].den, den |-> usd.den * feed[c].num] ELSE usd]
    IN  IF "USD" \in known THEN {rate} ELSE {}
Refreshed(live, feed) == The(EcbRates(feed), live)

\* match_wishlist_item_price: the first item with the picture, or else the name.
Wished(items, send) ==
    LET pictured == SelectSeq(items, LAMBDA i : i.image # {} /\ i.image = send.image)
        named == SelectSeq(items, LAMBDA i : i.name # {} /\ i.name = send.item)
    IN  IF pictured # << >> THEN {Head(pictured)} ELSE IF named # << >> THEN {Head(named)} ELSE {}

\* A gift without an amount gets the price of the wish that it fulfils, and is no
\* longer private then.
Priced(items, rates, send, usd) ==
    {w \in Wished(items, send) : usd = {0} /\ send.type = {"gift_purchased"}
                                 /\ w.amount > 0 /\ Usd(rates, w.amount, w.currency) # {}}

Unmatchable == {"Anonymous", "anon", "private", "hidden"}

\* record_throne_send: the columns of a send that do not depend on the tables.  An
\* amount in a currency without a rate is kept and not counted.
Stored(items, rates, send) ==
    LET usd == Usd(rates, send.amount, send.currency)
        wish == Priced(items, rates, send, usd)
        origin == IF wish = {} THEN [amount |-> send.amount, currency |-> send.currency]
                  ELSE LET w == The(wish, {}) IN [amount |-> w.amount, currency |-> w.currency]
    IN  [amount |-> The(IF wish = {} THEN usd ELSE Usd(rates, origin.amount, origin.currency), 0),
         original |-> IF origin.currency = "USD" THEN {} ELSE {origin},
         private |-> send.private /\ wish = {},
         ignored |-> usd = {},
         mayName |-> ~send.private /\ send.gifter # {} /\ send.gifter \cap Unmatchable = {}]

\* The unique keys of sends, of which the second is for events without an id.
SameSend(s, t) == IF s.event # {} /\ t.event # {} THEN s.event = t.event
                  ELSE s.event = {} /\ t.event = {} /\ s.hash = t.hash

=============================================================================
