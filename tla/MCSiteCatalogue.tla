--------------------------- MODULE MCSiteCatalogue ---------------------------
(* A catalogue of four names: one that is shown under another title and has *)
(* an application, one that has an application, one without, and one that   *)
(* begins with a digit and is found by its section only in inCommonUseArray. *)
EXTENDS SiteCatalogue, TLC

CONSTANTS Wechat, QQ, Quora, N163, Weixin

MCNames    == {Wechat, QQ, Quora, N163}
MCTitles   == MCNames \cup {Weixin}
MCCommon   == <<Wechat, QQ, N163>>
MCInitial  == (Wechat :> 23) @@ (QQ :> 17) @@ (Quora :> 17) @@ (N163 :> 1)
MCMatches  == ("q" :> {QQ, Quora}) @@ ("t" :> {Wechat}) @@ ("qx" :> {})
MCLabel    == [t \in MCTitles |-> IF t = Wechat THEN Weixin ELSE t]
MCScheme   == [t \in MCTitles |-> CASE t = Wechat -> "weixin"
                                    [] t = QQ     -> "mqq"
                                    [] t = N163   -> "neteasemail"
                                    [] OTHER      -> "none"]
=============================================================================
