------------------------------ MODULE MCFraming -----------------------------
(* Scripts that send every item of the protocol, at the boundaries of the  *)
(* formats: the widths of a varint, empty and longer text, no and two      *)
(* parameters, every filter, every status.                                 *)
EXTENDS Framing

Top62 == <<63, 255, 255, 255, 255, 255, 255, 255>>
Edges == {U64(0), U64(63), U64(64), U64(16383), U64(16384),
          <<0, 0, 0, 0, 63, 255, 255, 255>>, <<0, 0, 0, 0, 64, 0, 0, 0>>, Top62}

One == U64(1)
Wide == U64(300)
Ns == <<<<97>>, <<98, 99>>>>
Nameless == <<<<>>>>
Two == {<<U64(2), <<9>>>>, <<Wide, <<>>>>}
Loc == <<1, Wide>>

Subscribe(name, window, params) ==
  <<name, <<One, Wide, Ns, <<120>>, 127, 1, window, params>>>>

Messages1 ==
  {<<"Unsubscribe", <<id>>>> : id \in Edges}
  \cup {Subscribe(name, <<f, None, None>>, ps) :
          name \in {"Subscribe", "SubscribeUpdate"}, f \in {LatestGroup, LatestObject}, ps \in {{}, Two}}
  \cup {Subscribe("Subscribe", <<AbsoluteRange, s, e>>, {}) :
          s \in {<<None, None>>, <<Loc, Loc>>}, e \in {<<None, None>>, <<Loc, None>>}}
  \cup {Subscribe("SubscribeUpdate", <<AbsoluteRange, <<Loc, Loc>>, <<Loc, Loc>>>>, Two),
        Subscribe("Subscribe", <<AbsoluteStart, <<Loc, Loc>>, <<None, None>>>>, {}),
        <<"SubscribeOk", <<One, U64(0), 2, None, 0>>>>,
        <<"SubscribeOk", <<One, Wide, 1, <<Top62, Wide>>, 0>>>>,
        <<"SubscribeError", <<One, Wide, <<104, 105>>, U64(0)>>>>,
        <<"SubscribeDone", <<One, Wide, <<>>, None>>>>,
        <<"SubscribeDone", <<One, Wide, <<104>>, <<Wide, One>>>>>>,
        <<"MaxSubscribeId", <<Wide>>>>, <<"Announce", <<Ns, Two>>>>, <<"Announce", <<Nameless, {}>>>>,
        <<"Unannounce", <<Ns>>>>, <<"AnnounceOk", <<Ns>>>>,
        <<"AnnounceError", <<Ns, Wide, <<104>>>>>>, <<"AnnounceCancel", <<<<>>, Wide, <<>>>>>>,
        <<"TrackStatusRequest", <<Ns, <<120>>>>>>,
        <<"GoAway", <<<<104, 105>>>>>>, <<"SubscribeNamespace", <<Ns, Two>>>>,
        <<"SubscribeNamespaceOk", <<Ns>>>>, <<"SubscribeNamespaceError", <<Ns, One, <<104>>>>>>,
        <<"UnsubscribeNamespace", <<Ns>>>>,
        <<"Fetch", <<One, Ns, <<120>>, 5, 0, One, Wide, Top62, One, {}>>>>,
        <<"FetchCancel", <<Wide>>>>, <<"FetchOk", <<One, 1, 0, Wide, One, Two>>>>,
        <<"FetchError", <<One, Wide, <<104>>>>>>}
  \cup {<<"TrackStatus", <<Ns, <<120>>, st, Wide, One>>>> : st \in TrackStatusCode}

\* A second message behind every first one shows where the first one ended.
After == <<"Unsubscribe", <<Wide>>>>

Session(c, v, s, items) == [client |-> c, server |-> v, on |-> s, items |-> items]

Object(name, id, size, status) ==
  <<IF name = "Track" THEN <<"TrackObject", <<Wide, id, <<size, status>>>>>>
    ELSE <<"SubgroupObject", <<id, <<size, status>>>>>>>>
    \o [i \in 1..size |-> <<"byte", <<200 + i>>>>]
HeaderItem(name) ==
  IF name = "Track" THEN <<name, <<One, Wide, 127>>>> ELSE <<name, <<One, Wide, Wide, One, 0>>>>

\* The direction a message travels in: half of them each way.
Way(m) == IF m[1] \in Subscriber THEN "c2s" ELSE "s2c"

MCScripts ==
  {Session("Both", "Both", Way(m), <<m, After>>) : m \in Messages1}
  \cup {Session(c, v, s, <<m>>) :
          c \in DOMAIN RoleCode, v \in DOMAIN RoleCode, s \in Control,
          m \in {After, <<"Unannounce", <<<<>>>>>>}}
  \cup {Session("Subscriber", "Publisher", "data",
                <<HeaderItem(h)>> \o Object(h, U64(0), 2, 0) \o Object(h, Wide, 0, 3) \o Object(h, One, 1, 0)) :
          h \in DOMAIN HeaderType}
  \cup {Session("Both", "Both", "data", <<HeaderItem("Subgroup")>> \o Object("Subgroup", One, 0, st)) :
          st \in ObjectStatus}
  \cup {Session("Both", "Both", "dgram",
                <<<<"Datagram", <<One, Wide, Wide, id, 5, st, U64(n)>>, [i \in 1..n |-> 7]>>>>) :
          id \in {Wide, Top62}, st \in {0, 3}, n \in {0, 2}}
=============================================================================
