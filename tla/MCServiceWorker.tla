--------------------------- MODULE MCServiceWorker --------------------------
(* Three builds with one file each; the third one's sw.js has a new CACHE  *)
(* name.                                                                    *)
EXTENDS ServiceWorker

MCFiles == <<{"main1"}, {"main2"}, {"main3"}>>
MCVersion == <<1, 1, 2>>

=============================================================================
