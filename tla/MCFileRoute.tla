----------------------------- MODULE MCFileRoute -----------------------------
(* Cards, names and settings for TLC: names that collide, that hold what a URL *)
(* or a path gives a meaning, a family with a slash in it, a card that does    *)
(* not tell its camera, and settings that change between scan and upload.      *)
EXTENDS FileRoute

OnCard1 == <<"a", "a", "a", "b", "b", "b", "b", "a">>
Folder1 == <<"100GOPRO", "100GOPRO", "101GOPRO", "100GOPRO", "100GOPRO", "100MSDCF", "101GOPRO",
             "101GOPRO">>
Name1 == <<
  <<"GX", "01", ".", "MP4">>, <<"GX", "01", ".", "lrv">>, <<"GX", "01", ".", "MP4">>,
  <<"a", "%", "23", ".", "jpg">>, <<"a", "#", ".", "jpg">>, <<"DSC", ".", "JPG">>,
  <<"G0", "bad byte", ".", "THM">>, <<"notes", " ", "?">>>>
Taken1 == <<None, None, None, <<"d4", "t4">>, Malformed, None, None, None>>
Modified1 == <<<<"d1", "t1">>, <<"d1", "t1">>, <<"d2", "t1">>, <<"d5", "t5">>, <<"d5", "t5">>, <<"d5", "t5">>,
               <<"d6", "t1">>, <<"d7", "t1">>>>
Version1 == [c \in {"a", "b"} |->
  IF c = "a" THEN [json |-> "trailing comma", serial |-> <<"..", "/", "C1">>, firmware |-> <<"H24", "09">>]
             ELSE [json |-> "valid", serial |-> <<>>, firmware |-> <<"H99", "01">>]]

Setting(template, root, user, base, ca) ==
  [template |-> template, root |-> root, user |-> user, base |-> base, ca |-> ca,
   proxies |-> root # <<>>, thumbnails |-> user # <<"alice">>]
Https == [scheme |-> "https", authority |-> <<"cloud">>]
Settings1 == {
  Setting(<<"{original}">>, <<>>, <<"alice">>, Https, "none"),
  Setting(<<"{date}", "{original}">>, <<"My", "/">>, <<"bob">>, Https, "unreadable"),
  Setting(<<"{model}", "{camera}", "{time}", ".", "{ext}">>, <<"/", "My", " ", "GoPro", "/">>, <<"al", "/", "ice">>,
          [scheme |-> "http", authority |-> <<"::1", ":", "8080">>], "own"),
  Setting(<<".", ".">>, <<"My">>, <<"alice">>,
          [scheme |-> "http", authority |-> <<"localhost", "@", "cloud">>], "none")}
Strangers1 == {<<"GX", "01", ".", "MP4">>, <<"a", "#", ".", "jpg">>}
=============================================================================
