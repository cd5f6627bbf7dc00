----------------------------- MODULE MCProcess -----------------------------
(***************************************************************************)
(* A validator process, for TLC: the first of three that share a vault     *)
(* with a threshold of two.  Each configuration file and each environment  *)
(* is a small change of one that works.                                    *)
(***************************************************************************)
EXTENDS Startup, TLC

CONSTANTS EnabledWorkers\* the services the files enable

MCServices == {MintMonitor, MintSigner, MintExecutor,
               BurnMonitor, BurnSigner, BurnExecutor, Health}
MCEmpty == MCServices \ (EnabledWorkers \cup {Health})

MCMnemonicKey == ("own words" :> 2) @@ ("other words" :> 9)
MCKmsKeys == ("own key" :> [secp256k1 |-> TRUE, key |-> 2])
          @@ ("other curve" :> [secp256k1 |-> FALSE, key |-> 2])
MCUnprefixed == ("" :> "") @@ ("0xk" :> "k") @@ ("k" :> "k") @@ ("bad" :> "bad")
MCEthereumKey == "k" :> 7
MCSecrets == ("mongo" :> "uri") @@ ("eth" :> "0xk") @@ ("pokt" :> "own words")
MCController == [ validatorCount |-> 3, signerThreshold |-> 2, chainID |-> "1",
                  address |-> "controller", maxMintLimit |-> 100 ]

Works ==
    [ mongo |-> [URI |-> "uri", Database |-> "bridge", TimeoutMillis |-> 1000],
      ethereum |-> [PrivateKey |-> "k", RPCURL |-> "url", RPCTimeoutMillis |-> 1000,
                    ChainID |-> "1", WrappedPocketAddress |-> "wpokt",
                    MintControllerAddress |-> "controller", ValidatorAddresses |-> <<5, 7, 6>>],
      pocket |-> [Mnemonic |-> "", GcpKmsKeyName |-> "own key", RPCURL |-> "url",
                  GRPCEnabled |-> FALSE, GRPCHost |-> "", GRPCPort |-> 0,
                  RPCTimeoutMillis |-> 1000, ChainID |-> "pocket", TxFee |-> 10,
                  Bech32Prefix |-> "pokt", CoinDenom |-> "upokt",
                  MultisigAddress |-> [prefix |-> "pokt", threshold |-> 2, keys |-> <<1, 2, 3>>],
                  MultisigPublicKeys |-> <<2, 1, 3>>, MultisigThreshold |-> 2,
                  MintDisabled |-> TRUE],
      services |-> [s \in Workers |-> [Enabled |-> s \in EnabledWorkers \cup {MintSigner},
                                       IntervalMillis |-> 1000]],
      health |-> [IntervalMillis |-> 1000, ReadLastHealth |-> FALSE],
      gsm |-> NoConfig.gsm ]

MCFiles ==
    { Unreadable, Works,
      [Works EXCEPT !.pocket.MultisigThreshold = 1],
      [Works EXCEPT !.pocket.GcpKmsKeyName = "other curve"],
      [Works EXCEPT !.pocket.MintDisabled = FALSE, !.ethereum.ValidatorAddresses = <<5, 7>>],
      [Works EXCEPT !.pocket.TxFee = 200],
      [Works EXCEPT !.services[BurnSigner].IntervalMillis = 0],
      \* The keys are in the secret manager.
      [Works EXCEPT !.mongo.URI = "", !.ethereum.PrivateKey = "", !.pocket.GcpKmsKeyName = "",
                    !.gsm = [Enabled |-> TRUE, MongoSecretName |-> "mongo",
                             PoktSecretName |-> "pokt", EthSecretName |-> "eth"]] }

NoVariable == [ section \in DOMAIN NoConfig \ {"services"} |->
                    [s \in DOMAIN NoConfig[section] |-> Unset] ]
           @@ ("services" :> [s \in Workers |-> [Enabled |-> Unset, IntervalMillis |-> Unset]])

MCEnvs ==
    { NoVariable,
      [NoVariable EXCEPT !.pocket.MultisigPublicKeys = <<3, 2, 1>>,
                         !.pocket.MultisigThreshold = Malformed,
                         !.ethereum.PrivateKey = "0xk"],
      [NoVariable EXCEPT !.pocket.MultisigPublicKeys = <<1, 2, 4>>],
      [NoVariable EXCEPT !.pocket.MultisigPublicKeys = <<1, 2, 0>>],
      [NoVariable EXCEPT !.pocket.Mnemonic = "other words"],
      [NoVariable EXCEPT !.pocket.MultisigThreshold = 4, !.pocket.ChainID = "testnet"],
      [NoVariable EXCEPT !.pocket.ChainID = "testnet"],
      [NoVariable EXCEPT !.ethereum.ChainID = "5"],
      [NoVariable EXCEPT !.ethereum.PrivateKey = "bad"],
      [NoVariable EXCEPT !.gsm.Enabled = TRUE, !.gsm.EthSecretName = "missing"] }

=============================================================================
