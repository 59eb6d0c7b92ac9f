------------------------------- MODULE MCClient -------------------------------
(***************************************************************************)
(* Finite instances of Client: a chat that is recorded only while the      *)
(* streamer is live, a gift that is listed and may be paid, frames that    *)
(* break off.                                                              *)
(***************************************************************************)
EXTENDS Client

Always == [kind |-> "absent", path |-> "", expected |-> ""]
IfCoin(coin) == [kind |-> "equals", path |-> "data.coin_type", expected |-> coin]
NoEquals == [kind |-> "malformed", path |-> "", expected |-> ""]

MCConfig ==
  [key \in {<<"DANMU", "free">>, <<"GIFT", "free">>, <<"GIFT", "paid">>, <<"DANMU", "paid">>} |->
    CASE key = <<"DANMU", "free">> -> Always
      [] key = <<"DANMU", "paid">> -> NoEquals
      [] key = <<"GIFT", "free">>  -> Always
      [] key = <<"GIFT", "paid">>  -> IfCoin("gold")]

MCOffline == {"GIFT"}

Msg(k, c, found) == [kind |-> k, cmd |-> c, strings |-> found]
Nothing == [path \in {} |-> ""]

Danmu  == Msg("json", "DANMU", Nothing)
Gift   == Msg("json", "GIFT", [path \in {"data.coin_type"} |-> "gold"])
Silver == Msg("json", "GIFT", [path \in {"data.coin_type"} |-> "silver"])
NoCmd  == Msg("bad", "", Nothing)
Reply  == Msg("other", "", Nothing)

MCMessages == {Danmu, Gift, Silver, NoCmd, Reply}

MCFrames == {<<Danmu, Gift>>, <<Gift, NoCmd, Danmu>>, <<Reply, Silver, Danmu>>, Garbled}
=============================================================================
